---- MODULE Spec2Model ----
(***************************************************************************)
(* The project lifecycle of the gateway (gateway/src/project.rs) and the   *)
(* repository operations of GatewayService (gateway/src/service.rs), as a  *)
(* state machine over the `projects` and `custom_domains` tables and the   *)
(* container host.                                                         *)
(*                                                                         *)
(* Option<T> is modelled as a set with at most one element: None is {} and *)
(* Some(x) is {x}.  Result<T, E> is [ok |-> TRUE, v |-> x] or              *)
(* [ok |-> FALSE, e |-> err].                                              *)
(***************************************************************************)
EXTENDS Integers, Sequences, FiniteSets, TLC

VARIABLES
    projects,        \* the `projects` table: name -> Option row
    custom_domains,  \* the `custom_domains` table: fqdn -> Option row
    docker,          \* the container host: container name -> Option container
    next_cid,        \* the next container id the host hands out
    next_key,        \* the next value new_with_random_initial_key draws
    next_ulid,       \* the next value Ulid::new() or the SQL function ulid() draws
    host,            \* how the container host behaves in this run
    created,         \* history: what the last successful create_project of a name asked for
    router,          \* the TaskRouter: mailboxes, workers and the progress of their tasks
    calls,           \* create_project calls run statement by statement (see CreateSelect)
    events,          \* container name -> its start events of the last 15 minutes
    ret              \* the last operation and what it returned

vars == <<projects, custom_domains, docker, next_cid, next_key, next_ulid, host, created,
          router, calls, events, ret>>

----------------------------------------------------------------------------
(* Bounds of the model *)

\* containers the host creates in one run
MaxContainers == 6
\* initial keys drawn in one run: one per successful create_project
MaxKeys == 2
\* the largest idle_minutes a caller passes to create_project
MaxIdle == 1
\* the longest idle window of a project on the "busy" host
MaxWindow == 2
\* the cumulative CPU counter of a container stops growing after this many bursts
MaxCpuBursts == 1
\* tasks sent to the TaskRouter in one run
MaxTasks == 3
\* results of next one project's tasks produce in one run
MaxPolls == 2
\* Errored states nested in one another through their previous states
MaxNesting == 2
\* start events of one container the host keeps count of
MaxStartEvents == 4

(* Program constants *)

MAX_RECREATES == 5
MAX_RESTARTS == 5
MAX_REBOOTS == 3
\* the idle threshold of ProjectStarted::next, in CPU units per minute
IDLE_CPU_PER_MINUTE == 100000000
\* one burst of work of a container, in CPU units
CpuBurst == IDLE_CPU_PER_MINUTE

----------------------------------------------------------------------------
(* Values *)

None == {}
Some(x) == {x}
IsSome(o) == o # {}
Get(o) == CHOOSE x \in o : TRUE

Ok(x) == [ok |-> TRUE, v |-> x]
Err(x) == [ok |-> FALSE, e |-> x]

\* project names that pass ProjectName::is_valid, and one that does not
ValidNames == {"matrix"}
AllNames == ValidNames \cup {"Matrix_"}
Accounts == {"neo", "trinity"}
\* accounts differ by name only: the one that creates a name first is called neo
FirstAccount == "neo"
\* A random initial key and a fresh ULID are values not seen before: the model
\* numbers them in the order they are drawn.  0 is the key and the id of a
\* container the gateway of this run did not make.
Fqdns == {"neo.the.matrix", "zion.org"}
\* certificates and private keys callers pass to create_custom_domain
Certificates == {"dummy certificate", "dummy certificate update"}
PrivateKeys == {"dummy private key", "dummy private key update"}
IdleChoices == 0 .. MaxWindow
\* the network a fresh container is attached to, and ContainerSettings::network_name
BridgeNet == "bridge"
UserNet == "user"

\* behaviours of the container host.  "cooperative": every call succeeds and
\* the deployer answers its probe.  "faulty": every call can fail, the probe can
\* fail, and containers exit, vanish and age on their own.  "connect_fails":
\* every connect-network call fails with a non-409 error, every other call
\* succeeds.  "remove_fails": every remove-container call fails, every other
\* call succeeds.  "busy": every call succeeds, the deployer answers its
\* probe, and the container uses CPU while the gateway samples it.  "killed":
\* every call succeeds, the deployer answers its probe while its container
\* runs, and the container of a Ready project can be killed from outside.
\* "crashing": every call succeeds, containers exit on their own, projects are
\* rebooted, and the host's log of start events is kept.
HostModes == {"cooperative", "faulty", "connect_fails", "remove_fails", "busy", "killed",
              "crashing"}

(* Error messages *)
MsgMalformed == "container state object is malformed at attribute: get"
MsgDocker == "docker error"
MsgDocker404 == "docker 404"
MsgTooManyRecreates == "too many recreates"
MsgTooManyRestarts == "too many restarts"
MsgTooManyReboots == "too many restarts in the last 15 minutes"
MsgNoNetwork == "failed to connect to shuttle network"
MsgNotLinked == "project was not linked to a network"
MsgNotJoined == "project did not join the network"
MsgUnhealthy == "project did not become healthy in time"

ProjectError_internal(message) == [kind |-> "Internal", message |-> message, ctx |-> None]
ProjectError_no_network(message) == [kind |-> "NoNetwork", message |-> message, ctx |-> None]

----------------------------------------------------------------------------
(* The container inspection payload (ContainerInspectResponse).  A container  *)
(* of the host and a handle held by a project state have the same shape:      *)
(*   id      the container id                                                 *)
(*   status  "created", "running", "exited" or "paused"                       *)
(*   cfg     labels and arguments (see generate_container_config)             *)
(*   nets    the networks it is attached to                                   *)
(*   fresh   TRUE while now <= started_at + 120 s                             *)
(*   cpu     cumulative CPU usage, reset when the container starts            *)

ContainerInspectResponseExt_project_name(container) ==
    Ok(container.cfg.project)

\* the label shuttle.project_id, if the container has one
ContainerInspectResponseExt_project_id(container) ==
    IF IsSome(container.cfg.project_id_label)
    THEN Ok(Get(container.cfg.project_id_label))
    ELSE Err(ProjectError_internal(MsgMalformed))

\* the label shuttle.idle_minutes; every container of the model carries the
\* label as format!("{idle_minutes}") wrote it, which parse::<u64> reads back
ContainerInspectResponseExt_idle_minutes(container) ==
    container.cfg.idle_label

\* the argument that follows --admin-secret
ContainerInspectResponseExt_initial_key(container) ==
    Ok(container.cfg.admin_secret)

----------------------------------------------------------------------------
(* Project states *)

ProjectCreating_new(project_name, project_id, initial_key, idle_minutes) ==
    [tag |-> "creating", project_name |-> project_name, project_id |-> project_id,
     initial_key |-> initial_key, fqdn |-> None, from |-> None,
     recreate_count |-> 0, idle_minutes |-> idle_minutes]

\* the custom domain is not carried over
ProjectCreating_with_fqdn_dropped(creating, fqdn) == creating

ProjectCreating_with_fqdn(creating, fqdn) ==
    [creating EXCEPT !.fqdn = Some(fqdn)]

ProjectCreating_from_container(container, recreate_count) ==
    LET project_name == ContainerInspectResponseExt_project_name(container)
        project_id == ContainerInspectResponseExt_project_id(container)
        idle_minutes == ContainerInspectResponseExt_idle_minutes(container)
        initial_key == ContainerInspectResponseExt_initial_key(container)
    IN  IF ~project_name.ok THEN project_name
        ELSE IF ~project_id.ok THEN project_id
        ELSE IF ~initial_key.ok THEN initial_key
        ELSE Ok([tag |-> "creating", project_name |-> project_name.v,
                 project_id |-> project_id.v, initial_key |-> initial_key.v,
                 fqdn |-> None, from |-> Some(container),
                 recreate_count |-> recreate_count, idle_minutes |-> idle_minutes])

Attaching(container, recreate_count) ==
    [tag |-> "attaching", container |-> container, recreate_count |-> recreate_count]
Recreating(container, recreate_count) ==
    [tag |-> "recreating", container |-> container, recreate_count |-> recreate_count]
Starting(container, restart_count) ==
    [tag |-> "starting", container |-> container, restart_count |-> restart_count]
Restarting(container, restart_count) ==
    [tag |-> "restarting", container |-> container, restart_count |-> restart_count]
Started(container, service, stats) ==
    [tag |-> "started", container |-> container, service |-> service, stats |-> stats]
ProjectStarted_new(container, stats) == Started(container, None, stats)
Ready(container, service, stats) ==
    [tag |-> "ready", container |-> container, service |-> service, stats |-> stats]
Stopping(container) == [tag |-> "stopping", container |-> container]
Stopped(container) == [tag |-> "stopped", container |-> container]
Rebooting(container) == [tag |-> "rebooting", container |-> container]
Destroying(container) == [tag |-> "destroying", container |-> container]
Destroyed(destroyed) == [tag |-> "destroyed", destroyed |-> destroyed]
Errored(err) ==
    [tag |-> "errored", kind |-> err.kind, message |-> err.message, ctx |-> err.ctx]

HandleTags == {"attaching", "recreating", "starting", "restarting", "started",
               "ready", "stopping", "stopped", "rebooting", "destroying"}

ProjectTags == HandleTags \cup {"creating", "destroyed", "errored"}

\* the previous state of an Errored state is not looked into
Project_container_flat(self) ==
    IF self.tag \in HandleTags THEN Some(self.container) ELSE None

\* an Errored state is looked into one level deep only
Project_container_one_level(self) ==
    IF self.tag \in HandleTags THEN Some(self.container)
    ELSE IF self.tag = "errored" /\ IsSome(self.ctx) /\ Get(self.ctx).tag \in HandleTags
    THEN Some(Get(self.ctx).container)
    ELSE None

RECURSIVE Project_container(_)
Project_container(self) ==
    IF self.tag \in HandleTags THEN Some(self.container)
    ELSE IF self.tag = "errored" /\ IsSome(self.ctx) THEN Project_container(Get(self.ctx))
    ELSE None

Project_is_ready(self) == self.tag = "ready"
Project_is_destroyed(self) == self.tag = "destroyed"
Project_is_stopped(self) == self.tag = "stopped"

\* a Stopped project is polled on
Project_is_done_but_stopped(self) == self.tag \in {"errored", "ready", "destroyed"}

Project_is_done(self) == self.tag \in {"errored", "ready", "destroyed", "stopped"}

\* a Started state that has derived its service is routed too
Project_target_ip_started(self) ==
    IF self.tag = "ready" \/ (self.tag = "started" /\ IsSome(self.service))
    THEN Some(IF self.tag = "ready" THEN self.service.target
              ELSE Get(self.service).target)
    ELSE None

Project_target_ip(self) ==
    IF self.tag = "ready" THEN Some(self.service.target) ELSE None

Project_stop(self) ==
    IF IsSome(Project_container(self))
    THEN Ok(Stopping(Get(Project_container(self))))
    ELSE Err("InvalidOperation")

Project_start(self) ==
    IF IsSome(Project_container(self))
    THEN Ok(Starting(Get(Project_container(self)), 0))
    ELSE Err("InvalidOperation")

Project_reboot(self) ==
    IF IsSome(Project_container(self))
    THEN Ok(Rebooting(Get(Project_container(self))))
    ELSE Err("InvalidOperation")

Project_destroy(self) ==
    IF IsSome(Project_container(self))
    THEN Ok(Destroying(Get(Project_container(self))))
    ELSE Ok(Destroyed(None))

----------------------------------------------------------------------------
(* The container host.  A call flagged "ok" is answered from the host's state  *)
(* (404 for a container that is gone, 409 for a network already connected,    *)
(* 500 for a network already disconnected, 304 for a container already        *)
(* started); a call flagged "err" fails with another error and changes        *)
(* nothing.                                                                   *)

Flags(call) ==
    IF host = "faulty" THEN {"ok", "err"}
    ELSE IF host = "connect_fails" /\ call = "connect" THEN {"err"}
    ELSE IF host = "remove_fails" /\ call = "remove" THEN {"err"}
    ELSE {"ok"}

\* the deployer can answer the status probe only while its container runs
Probes(container) ==
    IF container.status # "running" THEN {FALSE}
    ELSE IF host = "faulty" THEN {TRUE, FALSE} ELSE {TRUE}

Live(dk, n, id) == IsSome(dk[n]) /\ Get(dk[n]).id = id

DockerMsg(code) == IF code = 404 THEN MsgDocker404 ELSE MsgDocker

\* impl From<DockerError> for ProjectError
From_DockerError(code) == ProjectError_internal(DockerMsg(code))

\* inspect_container by name
docker_inspect_name(dk, n, flag) ==
    IF flag = "err" THEN Err(500)
    ELSE IF IsSome(dk[n]) THEN Ok(Get(dk[n])) ELSE Err(404)

\* inspect_container by id: impl Refresh for ContainerInspectResponse
ContainerInspectResponse_refresh(dk, n, id, flag) ==
    IF flag = "err" THEN Err(500)
    ELSE IF Live(dk, n, id) THEN Ok(Get(dk[n])) ELSE Err(404)

NewContainer(cid, cfg) ==
    [id |-> cid, status |-> "created", cfg |-> cfg, nets |-> {BridgeNet},
     fresh |-> FALSE, cpu |-> 0]

\* stop_container: best effort for a container that runs
docker_stop(dk, n, id, flag) ==
    IF flag = "ok" /\ Live(dk, n, id) /\ Get(dk[n]).status = "running"
    THEN [dk EXCEPT ![n] = Some([Get(dk[n]) EXCEPT !.status = "exited"])]
    ELSE dk

\* remove_container with force
docker_remove(dk, n, id, flag) ==
    IF flag = "ok" /\ Live(dk, n, id) THEN [dk EXCEPT ![n] = None] ELSE dk

----------------------------------------------------------------------------
(* ProjectCreating *)

generate_container_config(self) ==
    IF IsSome(self.from)
    THEN Get(self.from).cfg
    ELSE [project |-> self.project_name,
          project_id_label |-> None,
          idle_label |-> self.idle_minutes,
          admin_secret |-> self.initial_key,
          project_id_arg |-> self.project_id,
          proxy_fqdn |-> self.fqdn]

\* o: the flags of the inspect, create and second inspect calls
ProjectCreating_next(self, dk, cid, o) ==
    LET n == self.project_name
        first == docker_inspect_name(dk, n, o.inspect)
        c == NewContainer(cid, generate_container_config(self))
        dk2 == [dk EXCEPT ![n] = Some(c)]
        second == docker_inspect_name(dk2, n, o.inspect2)
    IN  IF first.ok
        THEN [res |-> Ok(Attaching(first.v, self.recreate_count)),
              docker |-> dk, next_cid |-> cid]
        ELSE IF first.e # 404 \/ o.create = "err"
        THEN [res |-> Err(From_DockerError(500)), docker |-> dk, next_cid |-> cid]
        ELSE IF second.ok
        THEN [res |-> Ok(Attaching(second.v, self.recreate_count)),
              docker |-> dk2, next_cid |-> cid + 1]
        ELSE [res |-> Err(From_DockerError(second.e)), docker |-> dk2, next_cid |-> cid + 1]

(* ProjectAttaching *)

\* o: the flags of the disconnect calls, the connect call and the refresh.
\* codes: what the host answered to the disconnect calls (the first answer
\* that is not 200, if any), to the connect call and to the refresh; 0 where
\* the call was not made
\* a 409 of the connect call is a failure like any other
ProjectAttaching_next_409_fails(self, dk, o) ==
    LET n == self.container.cfg.project
        id == self.container.id
        snap == self.container.nets
        live == Live(dk, n, id)
        disconnect == IF snap = {} THEN 0
                      ELSE IF o.disconnect = "err" THEN 403
                      ELSE IF ~live THEN 404
                      ELSE IF snap \subseteq Get(dk[n]).nets THEN 200
                      ELSE 500
        disc_failed == disconnect \in {403, 404}
        dk1 == IF disconnect \in {200, 500}
               THEN [dk EXCEPT ![n] = Some([Get(dk[n]) EXCEPT !.nets = @ \ snap])]
               ELSE dk
        connect == IF disc_failed THEN 0
                   ELSE IF o.connect = "err" THEN 403
                   ELSE IF ~live THEN 404
                   ELSE IF UserNet \in Get(dk1[n]).nets THEN 409
                   ELSE 200
        conn_failed == connect \in {403, 404, 409}
        dk2 == IF connect \in {200, 409}
               THEN [dk1 EXCEPT ![n] = Some([Get(dk1[n]) EXCEPT !.nets = @ \cup {UserNet}])]
               ELSE dk1
        container == ContainerInspectResponse_refresh(dk2, n, id, o.inspect)
        inspect == IF disc_failed \/ conn_failed THEN 0
                   ELSE IF container.ok THEN 200 ELSE container.e
        codes == [disconnect |-> disconnect, connect |-> connect, inspect |-> inspect]
    IN  IF disc_failed
        THEN [res |-> Err(From_DockerError(disconnect)), docker |-> dk1, codes |-> codes]
        ELSE IF conn_failed
        THEN [res |-> Err(ProjectError_no_network(MsgNoNetwork)), docker |-> dk2,
              codes |-> codes]
        ELSE IF ~container.ok
        THEN [res |-> Err(From_DockerError(container.e)), docker |-> dk2, codes |-> codes]
        ELSE [res |-> Ok(Starting(container.v, 0)), docker |-> dk2, codes |-> codes]

ProjectAttaching_next(self, dk, o) ==
    LET n == self.container.cfg.project
        id == self.container.id
        snap == self.container.nets
        live == Live(dk, n, id)
        \* disconnect from every network of the handle; 500 (the container is
        \* not attached to it) is ignored
        disconnect == IF snap = {} THEN 0
                      ELSE IF o.disconnect = "err" THEN 403
                      ELSE IF ~live THEN 404
                      ELSE IF snap \subseteq Get(dk[n]).nets THEN 200
                      ELSE 500
        disc_failed == disconnect \in {403, 404}
        dk1 == IF disconnect \in {200, 500}
               THEN [dk EXCEPT ![n] = Some([Get(dk[n]) EXCEPT !.nets = @ \ snap])]
               ELSE dk
        \* connect to the user network; 409 (already attached) is ignored
        connect == IF disc_failed THEN 0
                   ELSE IF o.connect = "err" THEN 403
                   ELSE IF ~live THEN 404
                   ELSE IF UserNet \in Get(dk1[n]).nets THEN 409
                   ELSE 200
        conn_failed == connect \in {403, 404}
        dk2 == IF connect \in {200, 409}
               THEN [dk1 EXCEPT ![n] = Some([Get(dk1[n]) EXCEPT !.nets = @ \cup {UserNet}])]
               ELSE dk1
        container == ContainerInspectResponse_refresh(dk2, n, id, o.inspect)
        inspect == IF disc_failed \/ conn_failed THEN 0
                   ELSE IF container.ok THEN 200 ELSE container.e
        codes == [disconnect |-> disconnect, connect |-> connect, inspect |-> inspect]
    IN  IF disc_failed
        THEN [res |-> Err(From_DockerError(disconnect)), docker |-> dk1, codes |-> codes]
        ELSE IF conn_failed
        THEN [res |-> Err(ProjectError_no_network(MsgNoNetwork)), docker |-> dk2,
              codes |-> codes]
        ELSE IF ~container.ok
        THEN [res |-> Err(From_DockerError(container.e)), docker |-> dk2, codes |-> codes]
        ELSE [res |-> Ok(Starting(container.v, 0)), docker |-> dk2, codes |-> codes]

(* ProjectRecreating *)

\* o: the flags of the stop and remove calls
ProjectRecreating_next(self, dk, o) ==
    LET n == self.container.cfg.project
        id == self.container.id
        dk1 == docker_stop(dk, n, id, o.stop)
        dk2 == docker_remove(dk1, n, id, o.remove)
        creating == ProjectCreating_from_container(self.container, self.recreate_count + 1)
    IN  IF self.recreate_count < MAX_RECREATES
        THEN [res |-> creating, docker |-> dk2]
        ELSE [res |-> Err(ProjectError_internal(MsgTooManyRecreates)), docker |-> dk2]

(* ProjectStarting *)

\* o: the flags of the start call and the refresh.  codes: what the host
\* answered to the start call (304: already started) and to the refresh
\* a 304 of the start call is a failure like any other
ProjectStarting_next_304_fails(self, dk, o) ==
    LET n == self.container.cfg.project
        id == self.container.id
        live == Live(dk, n, id)
        start == IF o.start = "err" THEN 500
                 ELSE IF ~live THEN 404
                 ELSE IF Get(dk[n]).status = "running" THEN 304
                 ELSE 204
        start_failed == start \notin {204}
        dk1 == IF start = 204
               THEN [dk EXCEPT ![n] = Some([Get(dk[n]) EXCEPT
                        !.status = "running", !.fresh = TRUE, !.cpu = 0])]
               ELSE dk
        container == ContainerInspectResponse_refresh(dk1, n, id, o.inspect)
        inspect == IF start_failed THEN 0 ELSE IF container.ok THEN 200 ELSE container.e
        codes == [start |-> start, inspect |-> inspect]
    IN  IF start_failed
        THEN [res |-> Err(From_DockerError(start)), docker |-> dk1, codes |-> codes]
        ELSE IF ~container.ok
        THEN [res |-> Err(From_DockerError(container.e)), docker |-> dk1, codes |-> codes]
        ELSE [res |-> Ok(ProjectStarted_new(container.v, <<>>)), docker |-> dk1,
              codes |-> codes]

ProjectStarting_next(self, dk, o) ==
    LET n == self.container.cfg.project
        id == self.container.id
        live == Live(dk, n, id)
        start == IF o.start = "err" THEN 500
                 ELSE IF ~live THEN 404
                 ELSE IF Get(dk[n]).status = "running" THEN 304
                 ELSE 204
        start_failed == start \notin {204, 304}
        dk1 == IF start = 204
               THEN [dk EXCEPT ![n] = Some([Get(dk[n]) EXCEPT
                        !.status = "running", !.fresh = TRUE, !.cpu = 0])]
               ELSE dk
        container == ContainerInspectResponse_refresh(dk1, n, id, o.inspect)
        inspect == IF start_failed THEN 0 ELSE IF container.ok THEN 200 ELSE container.e
        codes == [start |-> start, inspect |-> inspect]
    IN  IF start_failed
        THEN [res |-> Err(From_DockerError(start)), docker |-> dk1, codes |-> codes]
        ELSE IF ~container.ok
        THEN [res |-> Err(From_DockerError(container.e)), docker |-> dk1, codes |-> codes]
        ELSE [res |-> Ok(ProjectStarted_new(container.v, <<>>)), docker |-> dk1,
              codes |-> codes]

(* ProjectRestarting *)

\* the ceiling is tested with <= in place of <
ProjectRestarting_next_one_more(self, dk, o) ==
    LET n == self.container.cfg.project
        dk1 == docker_stop(dk, n, self.container.id, o.stop)
    IN  IF self.restart_count <= MAX_RESTARTS
        THEN [res |-> Ok(Starting(self.container, self.restart_count + 1)), docker |-> dk1]
        ELSE [res |-> Err(ProjectError_internal(MsgTooManyRestarts)), docker |-> dk1]

\* the attempt is not counted
ProjectRestarting_next_same_count(self, dk, o) ==
    LET n == self.container.cfg.project
        dk1 == docker_stop(dk, n, self.container.id, o.stop)
    IN  IF self.restart_count < MAX_RESTARTS
        THEN [res |-> Ok(Starting(self.container, self.restart_count)), docker |-> dk1]
        ELSE [res |-> Err(ProjectError_internal(MsgTooManyRestarts)), docker |-> dk1]

\* o: the flag of the stop call
ProjectRestarting_next(self, dk, o) ==
    LET n == self.container.cfg.project
        dk1 == docker_stop(dk, n, self.container.id, o.stop)
    IN  IF self.restart_count < MAX_RESTARTS
        THEN [res |-> Ok(Starting(self.container, self.restart_count + 1)), docker |-> dk1]
        ELSE [res |-> Err(ProjectError_internal(MsgTooManyRestarts)), docker |-> dk1]

(* ProjectStarted *)

\* the first network of the container and its address; a container that does
\* not run has no address to parse
Service_from_container(container, net) ==
    IF container.nets = {}
    THEN Err(ProjectError_internal(MsgNotLinked))
    ELSE IF container.status # "running"
    THEN Err(ProjectError_internal(MsgNotJoined))
    ELSE Ok([name |-> container.cfg.project,
             target |-> [cid |-> container.id, net |-> net],
             last_check |-> None])

\* the samples left after popping the front while more than idle_minutes remain
TrimStats(stats, idle_minutes) ==
    IF Len(stats) > idle_minutes
    THEN SubSeq(stats, Len(stats) - idle_minutes + 1, Len(stats))
    ELSE stats

\* the last sample popped, if one was
LastPopped(stats, idle_minutes) ==
    IF Len(stats) > idle_minutes THEN Some(stats[Len(stats) - idle_minutes]) ELSE None

\* the division by idle_minutes is left out
cpu_per_minute_undivided(new_stat, last, idle_minutes) ==
    IF new_stat >= last
    THEN new_stat - last
    ELSE 2 * IDLE_CPU_PER_MINUTE

\* (new - last) / idle_minutes on u64.  When the subtraction underflows a
\* release build wraps to 2^64 - (last - new), which is beyond TLC's integers;
\* divided by idle_minutes it is far above the idle threshold, and that is all
\* next reads of it, so twice the threshold stands for it
cpu_per_minute(new_stat, last, idle_minutes) ==
    IF new_stat >= last
    THEN (new_stat - last) \div idle_minutes
    ELSE 2 * IDLE_CPU_PER_MINUTE

\* a probe that fails yields Started again however long ago the container started
ProjectStarted_next_no_grace(self, dk, o, net) ==
    LET n == self.container.cfg.project
        refreshed == ContainerInspectResponse_refresh(dk, n, self.container.id, o.inspect)
        container == refreshed.v
        derived == IF IsSome(self.service) THEN Ok(Get(self.service))
                   ELSE Service_from_container(container, net)
        service == [derived.v EXCEPT !.last_check = Some(o.probe)]
        idle_minutes == ContainerInspectResponseExt_idle_minutes(container)
        new_stat == container.cpu
        pushed == Append(self.stats, new_stat)
        last == LastPopped(pushed, idle_minutes)
        stats == TrimStats(pushed, idle_minutes)
        answer ==
            IF ~refreshed.ok
            THEN [res |-> Err(From_DockerError(refreshed.e)), panic |-> FALSE]
            ELSE IF ~derived.ok
            THEN [res |-> derived, panic |-> FALSE]
            ELSE IF o.probe
            THEN IF idle_minutes < 1
                 THEN [res |-> Ok(Ready(container, service, self.stats)), panic |-> FALSE]
                 ELSE IF o.stats = "err"
                 THEN [res |-> Err(From_DockerError(500)), panic |-> FALSE]
                 ELSE IF IsSome(last)
                 THEN IF cpu_per_minute(new_stat, Get(last), idle_minutes) < IDLE_CPU_PER_MINUTE
                      THEN [res |-> Ok(Stopping(container)), panic |-> new_stat < Get(last)]
                      ELSE [res |-> Ok(Ready(container, service, stats)),
                            panic |-> new_stat < Get(last)]
                 ELSE [res |-> Ok(Ready(container, service, stats)), panic |-> FALSE]
            ELSE [res |-> Ok(Started(container, Some(service), self.stats)), panic |-> FALSE]
        probe == IF ~refreshed.ok \/ ~derived.ok THEN "none"
                 ELSE IF o.probe THEN "healthy" ELSE "unhealthy"
        codes == [inspect |-> IF refreshed.ok THEN 200 ELSE refreshed.e, probe |-> probe]
    IN  [res |-> answer.res, panic |-> answer.panic, codes |-> codes]

\* o: the flag of the refresh, the answer of the status probe, the flag of the
\* stats call; net: the network Service::from_container finds first.
\* panic: the u64 subtraction underflows, which aborts a build with overflow checks
\* codes: the answer of the refresh and the outcome of the status probe, "none"
\* when the step returned before it probed
ProjectStarted_next(self, dk, o, net) ==
    LET n == self.container.cfg.project
        refreshed == ContainerInspectResponse_refresh(dk, n, self.container.id, o.inspect)
        container == refreshed.v
        derived == IF IsSome(self.service) THEN Ok(Get(self.service))
                   ELSE Service_from_container(container, net)
        service == [derived.v EXCEPT !.last_check = Some(o.probe)]
        idle_minutes == ContainerInspectResponseExt_idle_minutes(container)
        new_stat == container.cpu
        pushed == Append(self.stats, new_stat)
        last == LastPopped(pushed, idle_minutes)
        stats == TrimStats(pushed, idle_minutes)
        answer ==
            IF ~refreshed.ok
            THEN [res |-> Err(From_DockerError(refreshed.e)), panic |-> FALSE]
            ELSE IF ~derived.ok
            THEN [res |-> derived, panic |-> FALSE]
            ELSE IF o.probe
            THEN IF idle_minutes < 1
                 THEN [res |-> Ok(Ready(container, service, self.stats)), panic |-> FALSE]
                 ELSE IF o.stats = "err"
                 THEN [res |-> Err(From_DockerError(500)), panic |-> FALSE]
                 ELSE IF IsSome(last)
                 THEN IF cpu_per_minute(new_stat, Get(last), idle_minutes) < IDLE_CPU_PER_MINUTE
                      THEN [res |-> Ok(Stopping(container)), panic |-> new_stat < Get(last)]
                      ELSE [res |-> Ok(Ready(container, service, stats)),
                            panic |-> new_stat < Get(last)]
                 ELSE [res |-> Ok(Ready(container, service, stats)), panic |-> FALSE]
            ELSE IF ~container.fresh
            THEN [res |-> Err(ProjectError_internal(MsgUnhealthy)), panic |-> FALSE]
            ELSE [res |-> Ok(Started(container, Some(service), self.stats)), panic |-> FALSE]
        probe == IF ~refreshed.ok \/ ~derived.ok THEN "none"
                 ELSE IF o.probe THEN "healthy" ELSE "unhealthy"
        codes == [inspect |-> IF refreshed.ok THEN 200 ELSE refreshed.e, probe |-> probe]
    IN  [res |-> answer.res, panic |-> answer.panic, codes |-> codes]

(* ProjectStopping *)

\* o: the flags of the kill call and the refresh.  The host refuses (409) to
\* kill a container that does not run
\* Stopped is built from the handle the state held, with no refresh
ProjectStopping_next_stale(self, dk, o) ==
    LET n == self.container.cfg.project
        id == self.container.id
        live == Live(dk, n, id)
        kill_failed == o.kill = "err" \/ ~live \/ Get(dk[n]).status # "running"
        dk1 == IF kill_failed THEN dk
               ELSE [dk EXCEPT ![n] = Some([Get(dk[n]) EXCEPT !.status = "exited"])]
    IN  IF kill_failed
        THEN [res |-> Err(From_DockerError(IF ~live THEN 404 ELSE 409)), docker |-> dk1]
        ELSE [res |-> Ok(Stopped(self.container)), docker |-> dk1]

ProjectStopping_next(self, dk, o) ==
    LET n == self.container.cfg.project
        id == self.container.id
        live == Live(dk, n, id)
        kill_failed == o.kill = "err" \/ ~live \/ Get(dk[n]).status # "running"
        dk1 == IF kill_failed THEN dk
               ELSE [dk EXCEPT ![n] = Some([Get(dk[n]) EXCEPT !.status = "exited"])]
        container == ContainerInspectResponse_refresh(dk1, n, id, o.inspect)
    IN  IF kill_failed
        THEN [res |-> Err(From_DockerError(IF ~live THEN 404 ELSE 409)), docker |-> dk1]
        ELSE IF ~container.ok
        THEN [res |-> Err(From_DockerError(container.e)), docker |-> dk1]
        ELSE [res |-> Ok(Stopped(container.v)), docker |-> dk1]

(* ProjectRebooting *)

\* o: the flags of the stop call, the refresh and the events call, and the
\* number of start events the events call reports for the last 15 minutes,
\* where MAX_REBOOTS stands for "MAX_REBOOTS or more"
\* the ceiling is tested with <= in place of <
ProjectRebooting_next_one_more(self, dk, o) ==
    LET n == self.container.cfg.project
        id == self.container.id
        live == Live(dk, n, id)
        stop_failed == o.stop = "err" \/ ~live
        dk1 == docker_stop(dk, n, id, o.stop)
        container == ContainerInspectResponse_refresh(dk1, n, id, o.inspect)
        start_event_count == o.starts
    IN  IF stop_failed
        THEN [res |-> Err(From_DockerError(IF live THEN 500 ELSE 404)), docker |-> dk1]
        ELSE IF ~container.ok
        THEN [res |-> Err(From_DockerError(container.e)), docker |-> dk1]
        ELSE IF o.events = "err"
        THEN [res |-> Err(From_DockerError(500)), docker |-> dk1]
        ELSE IF start_event_count <= MAX_REBOOTS
        THEN [res |-> Ok(Starting(container.v, 0)), docker |-> dk1]
        ELSE [res |-> Err(ProjectError_internal(MsgTooManyReboots)), docker |-> dk1]

ProjectRebooting_next(self, dk, o) ==
    LET n == self.container.cfg.project
        id == self.container.id
        live == Live(dk, n, id)
        stop_failed == o.stop = "err" \/ ~live
        dk1 == docker_stop(dk, n, id, o.stop)
        container == ContainerInspectResponse_refresh(dk1, n, id, o.inspect)
        start_event_count == o.starts
    IN  IF stop_failed
        THEN [res |-> Err(From_DockerError(IF live THEN 500 ELSE 404)), docker |-> dk1]
        ELSE IF ~container.ok
        THEN [res |-> Err(From_DockerError(container.e)), docker |-> dk1]
        ELSE IF o.events = "err"
        THEN [res |-> Err(From_DockerError(500)), docker |-> dk1]
        ELSE IF start_event_count < MAX_REBOOTS
        THEN [res |-> Ok(Starting(container.v, 0)), docker |-> dk1]
        ELSE [res |-> Err(ProjectError_internal(MsgTooManyReboots)), docker |-> dk1]

(* ProjectDestroying *)

\* a remove call that fails fails the step
ProjectDestroying_next_strict(self, dk, o) ==
    LET n == self.container.cfg.project
        id == self.container.id
        dk1 == docker_stop(dk, n, id, o.stop)
        dk2 == docker_remove(dk1, n, id, o.remove)
    IN  IF o.remove = "err"
        THEN [res |-> Err(From_DockerError(500)), docker |-> dk2]
        ELSE [res |-> Ok(Destroyed(Some(self.container))), docker |-> dk2]

\* o: the flags of the stop and remove calls
ProjectDestroying_next(self, dk, o) ==
    LET n == self.container.cfg.project
        id == self.container.id
        dk1 == docker_stop(dk, n, id, o.stop)
        dk2 == docker_remove(dk1, n, id, o.remove)
    IN  [res |-> Ok(Destroyed(Some(self.container))), docker |-> dk2]

----------------------------------------------------------------------------
(* impl State for Project *)

\* Result<S, ProjectError> into Project: an error becomes the Errored state
IntoTryState(res) == IF res.ok THEN res.v ELSE Errored(res.e)

\* how many Errored states a state is wrapped in
RECURSIVE Nesting(_)
Nesting(self) ==
    IF self.tag = "errored"
    THEN 1 + (IF IsSome(self.ctx) THEN Nesting(Get(self.ctx)) ELSE 0)
    ELSE 0

\* the error is passed on as the step made it, without the state it came from
Project_next_keeps_ctx(self, res) ==
    IF self.tag = "attaching" /\ ~res.ok /\ res.e.kind = "NoNetwork"
    THEN Recreating(self.container, self.recreate_count)
    ELSE IF self.tag = "starting" /\ ~res.ok
    THEN Restarting(self.container, self.restart_count)
    ELSE IntoTryState(res)

\* an error of Starting becomes Errored like the errors of the other variants
Project_next_starting_errs(self, res) ==
    LET new ==
            IF self.tag = "attaching" /\ ~res.ok /\ res.e.kind = "NoNetwork"
            THEN Recreating(self.container, self.recreate_count)
            ELSE IntoTryState(res)
    IN  IF new.tag = "errored" THEN [new EXCEPT !.ctx = Some(self)] ELSE new

\* the result of Project::next for the state self, given what the step of
\* its variant returned
Project_next(self, res) ==
    LET new ==
            IF self.tag = "attaching" /\ ~res.ok /\ res.e.kind = "NoNetwork"
            THEN Recreating(self.container, self.recreate_count)
            ELSE IF self.tag = "starting" /\ ~res.ok
            THEN Restarting(self.container, self.restart_count)
            ELSE IntoTryState(res)
    IN  IF new.tag = "errored" THEN [new EXCEPT !.ctx = Some(self)] ELSE new

----------------------------------------------------------------------------
(* The repository *)

Row(project_id, account_name, initial_key, project_state) ==
    [project_id |-> project_id, account_name |-> account_name,
     initial_key |-> initial_key, project_state |-> project_state]

\* UPDATE projects SET [initial_key,] project_state WHERE project_name
update_project(tbl, project_name, project) ==
    IF ~IsSome(tbl[project_name]) THEN tbl
    ELSE IF project.tag = "creating"
    THEN [tbl EXCEPT ![project_name] =
            Some([Get(@) EXCEPT !.initial_key = project.initial_key,
                                !.project_state = project])]
    ELSE [tbl EXCEPT ![project_name] = Some([Get(@) EXCEPT !.project_state = project])]

find_project(tbl, project_name) ==
    IF IsSome(tbl[project_name]) THEN Ok(Get(tbl[project_name]).project_state)
    ELSE Err("ProjectNotFound")

control_key_from_project_name(tbl, project_name) ==
    IF IsSome(tbl[project_name]) THEN Ok(Get(tbl[project_name]).initial_key)
    ELSE Err("ProjectNotFound")

\* the custom domains joined to the project row with this project_id
find_custom_domain_for_project(tbl, domains, project_id) ==
    {f \in Fqdns : /\ IsSome(domains[f])
                   /\ Get(domains[f]).project_id = project_id
                   /\ \E n \in AllNames : IsSome(tbl[n]) /\ Get(tbl[n]).project_id = project_id}

----------------------------------------------------------------------------
(* impl Refresh for Project *)

\* flag: the flag of the inspect call
\* a Started or Ready project whose container has exited is left as it is
Project_refresh_unseen(self, dk, flag) ==
    LET n == self.container.cfg.project
        container == ContainerInspectResponse_refresh(dk, n, self.container.id, flag)
        status == container.v.status
        recreated == ProjectCreating_from_container(self.container, 0)
    IN  IF self.tag \notin {"starting", "started", "ready", "stopping"}
        THEN Ok(self)
        ELSE IF ~container.ok
        THEN IF container.e = 404 /\ self.tag # "stopping"
             THEN IF recreated.ok THEN recreated ELSE Err("Internal")
             ELSE Err("Internal")
        ELSE IF self.tag = "starting"
        THEN IF status = "running" THEN Ok(ProjectStarted_new(container.v, <<>>))
             ELSE IF status = "created" THEN Ok(Starting(container.v, self.restart_count))
             ELSE IF status = "exited" THEN Ok(Restarting(container.v, 0))
             ELSE Err("Internal")
        ELSE IF self.tag \in {"started", "ready"}
        THEN IF status = "running" THEN Ok(ProjectStarted_new(container.v, self.stats))
             ELSE IF status = "exited" THEN Ok(self)
             ELSE Err("Internal")
        ELSE IF status = "running" THEN Ok(Stopping(container.v))
             ELSE IF status = "exited" THEN Ok(Stopped(container.v))
             ELSE Err("Internal")

\* a Starting project whose container has exited keeps its restart_count
Project_refresh_keeps_count(self, dk, flag) ==
    LET n == self.container.cfg.project
        container == ContainerInspectResponse_refresh(dk, n, self.container.id, flag)
        status == container.v.status
        recreated == ProjectCreating_from_container(self.container, 0)
    IN  IF self.tag \notin {"starting", "started", "ready", "stopping"}
        THEN Ok(self)
        ELSE IF ~container.ok
        THEN IF container.e = 404 /\ self.tag # "stopping"
             THEN IF recreated.ok THEN recreated ELSE Err("Internal")
             ELSE Err("Internal")
        ELSE IF self.tag = "starting"
        THEN IF status = "running" THEN Ok(ProjectStarted_new(container.v, <<>>))
             ELSE IF status = "created" THEN Ok(Starting(container.v, self.restart_count))
             ELSE IF status = "exited" THEN Ok(Restarting(container.v, self.restart_count))
             ELSE Err("Internal")
        ELSE IF self.tag \in {"started", "ready"}
        THEN IF status = "running" THEN Ok(ProjectStarted_new(container.v, self.stats))
             ELSE IF status = "exited" THEN Ok(Restarting(container.v, 0))
             ELSE Err("Internal")
        ELSE IF status = "running" THEN Ok(Stopping(container.v))
             ELSE IF status = "exited" THEN Ok(Stopped(container.v))
             ELSE Err("Internal")

\* the container host is asked about every state, and its failure is passed on
Project_refresh_inspects_all(self, dk, flag) ==
    LET n == self.container.cfg.project
        container == ContainerInspectResponse_refresh(dk, n, self.container.id, flag)
        status == container.v.status
        recreated == ProjectCreating_from_container(self.container, 0)
    IN  IF self.tag \notin {"starting", "started", "ready", "stopping"}
        THEN IF flag = "err" THEN Err("Internal") ELSE Ok(self)
        ELSE IF ~container.ok
        THEN IF container.e = 404 /\ self.tag # "stopping"
             THEN IF recreated.ok THEN recreated ELSE Err("Internal")
             ELSE Err("Internal")
        ELSE IF self.tag = "starting"
        THEN IF status = "running" THEN Ok(ProjectStarted_new(container.v, <<>>))
             ELSE IF status = "created" THEN Ok(Starting(container.v, self.restart_count))
             ELSE IF status = "exited" THEN Ok(Restarting(container.v, 0))
             ELSE Err("Internal")
        ELSE IF self.tag \in {"started", "ready"}
        THEN IF status = "running" THEN Ok(ProjectStarted_new(container.v, self.stats))
             ELSE IF status = "exited" THEN Ok(Restarting(container.v, 0))
             ELSE Err("Internal")
        ELSE IF status = "running" THEN Ok(Stopping(container.v))
             ELSE IF status = "exited" THEN Ok(Stopped(container.v))
             ELSE Err("Internal")

Project_refresh(self, dk, flag) ==
    LET n == self.container.cfg.project
        container == ContainerInspectResponse_refresh(dk, n, self.container.id, flag)
        status == container.v.status
        recreated == ProjectCreating_from_container(self.container, 0)
    IN  IF self.tag \notin {"starting", "started", "ready", "stopping"}
        THEN Ok(self)
        ELSE IF ~container.ok
        THEN IF container.e = 404 /\ self.tag # "stopping"
             THEN IF recreated.ok THEN recreated ELSE Err("Internal")
             ELSE Err("Internal")
        ELSE IF self.tag = "starting"
        THEN IF status = "running" THEN Ok(ProjectStarted_new(container.v, <<>>))
             ELSE IF status = "created" THEN Ok(Starting(container.v, self.restart_count))
             ELSE IF status = "exited" THEN Ok(Restarting(container.v, 0))
             ELSE Err("Internal")
        ELSE IF self.tag \in {"started", "ready"}
        THEN IF status = "running" THEN Ok(ProjectStarted_new(container.v, self.stats))
             ELSE IF status = "exited" THEN Ok(Restarting(container.v, 0))
             ELSE Err("Internal")
        ELSE IF status = "running" THEN Ok(Stopping(container.v))
             ELSE IF status = "exited" THEN Ok(Stopped(container.v))
             ELSE Err("Internal")

----------------------------------------------------------------------------
(* TaskRouter and the worker of each project's mailbox *)

\* the names tasks are sent for
RouterNames == {"matrix", "zion"}

\*   table      project name -> the tasks waiting in its mailbox, oldest first
\*   executing  project name -> the tasks its worker is polling
\*   finished   project name -> the tasks that have ended
\*   next_task  tasks are numbered in the order they are sent
\*   produced   project name -> how many results next has returned
\*   committed  project name -> how many of them update_project has written
TaskRouter_new ==
    [table |-> [p \in RouterNames |-> <<>>],
     executing |-> [p \in RouterNames |-> {}],
     finished |-> [p \in RouterNames |-> {}],
     next_task |-> 1,
     produced |-> [p \in RouterNames |-> 0],
     committed |-> [p \in RouterNames |-> 0]]

TaskRouter_route(r, p) ==
    [r EXCEPT !.table[p] = Append(@, r.next_task), !.next_task = @ + 1]

\* the worker takes the next task only when the one before has ended
Worker_idle_always(r, p) == TRUE

Worker_idle(r, p) == r.executing[p] = {}

Worker_recv(r, p) ==
    [r EXCEPT !.table[p] = Tail(@), !.executing[p] = @ \cup {Head(r.table[p])}]

\* the driver awaits update_project before it polls next again
poll_ready_unawaited(r, p) == TRUE

poll_ready(r, p) == r.produced[p] = r.committed[p]

----------------------------------------------------------------------------
(* GatewayService *)

\* the table has no UNIQUE constraint
NameTaken_never(tbl, project_name) == FALSE

\* UNIQUE(project_name) of the projects table
NameTaken(tbl, project_name) == IsSome(tbl[project_name])

ProjectName_is_valid(project_name) == project_name \in ValidNames

\* r: the values drawn while the call runs: initial_key by
\* new_with_random_initial_key, ulid_new by Ulid::new(), ulid_sql by the SQL
\* function ulid()
insert_project(tbl, project_name, project_id, account_name, idle_minutes, r) ==
    LET project == ProjectCreating_new(project_name, project_id, r.initial_key, idle_minutes)
    IN  IF NameTaken(tbl, project_name)
        THEN [res |-> Err("ProjectAlreadyExists"), projects |-> tbl]
        ELSE [res |-> Ok(project),
              projects |-> [tbl EXCEPT ![project_name] =
                  Some(Row(r.ulid_sql, account_name, r.initial_key, project))]]

\* an admin's call replaces a project that is not destroyed
create_project_admin_replaces(tbl, domains, project_name, account_name, is_admin, idle_minutes, r) ==
    LET row == Get(tbl[project_name])
        fresh == ProjectCreating_new(project_name, row.project_id, r.initial_key, idle_minutes)
        creating == IF IsSome(r.domain)
                    THEN ProjectCreating_with_fqdn(fresh, Get(r.domain))
                    ELSE fresh
    IN  IF IsSome(tbl[project_name]) /\ (row.account_name = account_name \/ is_admin)
        THEN IF Project_is_destroyed(row.project_state) \/ is_admin
             THEN [res |-> Ok(creating),
                   projects |-> update_project(tbl, project_name, creating)]
             ELSE [res |-> Err("ProjectAlreadyExists"), projects |-> tbl]
        ELSE IF ProjectName_is_valid(project_name)
        THEN insert_project(tbl, project_name, r.ulid_new, account_name, idle_minutes, r)
        ELSE [res |-> Err("InvalidProjectName"), projects |-> tbl]

\* the SELECT matches the owner's rows only, whatever is_admin
create_project_owner_only(tbl, domains, project_name, account_name, is_admin, idle_minutes, r) ==
    LET row == Get(tbl[project_name])
        fresh == ProjectCreating_new(project_name, row.project_id, r.initial_key, idle_minutes)
        creating == IF IsSome(r.domain)
                    THEN ProjectCreating_with_fqdn(fresh, Get(r.domain))
                    ELSE fresh
    IN  IF IsSome(tbl[project_name]) /\ row.account_name = account_name
        THEN IF Project_is_destroyed(row.project_state)
             THEN [res |-> Ok(creating),
                   projects |-> update_project(tbl, project_name, creating)]
             ELSE [res |-> Err("ProjectAlreadyExists"), projects |-> tbl]
        ELSE IF ProjectName_is_valid(project_name)
        THEN insert_project(tbl, project_name, r.ulid_new, account_name, idle_minutes, r)
        ELSE [res |-> Err("InvalidProjectName"), projects |-> tbl]

\* The part of create_project after its SELECT.  seen: the row of the name the
\* SELECT found in the table, if any; tbl: the table the UPDATE or the INSERT
\* runs on.  r.domain: the row find_custom_domain_for_project fetches, if
\* there is one
create_project_after(seen, tbl, domains, project_name, account_name, is_admin, idle_minutes, r) ==
    LET row == Get(seen)
        project == row.project_state
        project_id == row.project_id
        fresh == ProjectCreating_new(project_name, project_id, r.initial_key, idle_minutes)
        creating == IF IsSome(r.domain)
                    THEN ProjectCreating_with_fqdn(fresh, Get(r.domain))
                    ELSE fresh
    IN  IF IsSome(seen) /\ (row.account_name = account_name \/ is_admin)
        THEN IF Project_is_destroyed(project)
             THEN [res |-> Ok(creating),
                   projects |-> update_project(tbl, project_name, creating)]
             ELSE [res |-> Err("ProjectAlreadyExists"), projects |-> tbl]
        ELSE IF ProjectName_is_valid(project_name)
        THEN insert_project(tbl, project_name, r.ulid_new, account_name, idle_minutes, r)
        ELSE [res |-> Err("InvalidProjectName"), projects |-> tbl]

\* no other statement runs between the SELECT and what follows it
create_project(tbl, domains, project_name, account_name, is_admin, idle_minutes, r) ==
    create_project_after(tbl[project_name], tbl, domains, project_name, account_name,
                         is_admin, idle_minutes, r)

\* INSERT OR IGNORE: a record of the fqdn that exists is kept
create_custom_domain_ignore(tbl, domains, project_name, fqdn, certs, private_key) ==
    IF ~IsSome(tbl[project_name])
    THEN [res |-> Err("RowNotFound"), custom_domains |-> domains]
    ELSE [res |-> Ok("unit"),
          custom_domains |-> IF IsSome(domains[fqdn]) THEN domains
              ELSE [domains EXCEPT ![fqdn] =
                  Some([project_id |-> Get(tbl[project_name]).project_id,
                        certificate |-> certs, private_key |-> private_key])]]

\* SELECT project_id (fetch_one), then INSERT OR REPLACE on the key fqdn
create_custom_domain(tbl, domains, project_name, fqdn, certs, private_key) ==
    IF ~IsSome(tbl[project_name])
    THEN [res |-> Err("RowNotFound"), custom_domains |-> domains]
    ELSE [res |-> Ok("unit"),
          custom_domains |-> [domains EXCEPT ![fqdn] =
              Some([project_id |-> Get(tbl[project_name]).project_id,
                    certificate |-> certs, private_key |-> private_key])]]

\* the record of the fqdn joined to the project row with its project_id
project_details_for_custom_domain(tbl, domains, fqdn) ==
    LET joined == IF IsSome(domains[fqdn])
                  THEN {n \in AllNames : /\ IsSome(tbl[n])
                                         /\ Get(tbl[n]).project_id =
                                                Get(domains[fqdn]).project_id}
                  ELSE {}
    IN  IF joined = {} THEN Err("CustomDomainNotFound")
        ELSE Ok([fqdn |-> fqdn, project_name |-> CHOOSE n \in joined : TRUE,
                 certificate |-> Get(domains[fqdn]).certificate,
                 private_key |-> Get(domains[fqdn]).private_key])

\* what fetch_optional can return for the custom domain of a project
DomainChoices(tbl, domains, project_name) ==
    LET found == IF IsSome(tbl[project_name])
                 THEN find_custom_domain_for_project(tbl, domains,
                          Get(tbl[project_name]).project_id)
                 ELSE {}
    IN  IF found = {} THEN {None} ELSE {Some(f) : f \in found}

\* proxied: the answer of the proxy call, if it is made
route(tbl, project, project_name, proxied) ==
    LET target_ip == Project_target_ip(project)
        control_key == control_key_from_project_name(tbl, project_name)
    IN  IF ~IsSome(target_ip)
        THEN [res |-> Err("ProjectNotReady"), lookups |-> 0, proxy_calls |-> 0,
              secret |-> None]
        ELSE IF ~control_key.ok
        THEN [res |-> Err(control_key.e), lookups |-> 1, proxy_calls |-> 0, secret |-> None]
        ELSE IF ~proxied
        THEN [res |-> Err("ProjectUnavailable"), lookups |-> 1, proxy_calls |-> 1,
              secret |-> Some(control_key.v)]
        ELSE [res |-> Ok(Get(target_ip)), lookups |-> 1, proxy_calls |-> 1,
              secret |-> Some(control_key.v)]

----------------------------------------------------------------------------
(* Initial state: empty tables; the host holds no container for the name, or, *)
(* under the host "connect_fails", one made by a gateway build that labels    *)
(* its containers with shuttle.project_id.                                    *)

LabelledContainer(n) ==
    [id |-> 0, status |-> "exited",
     cfg |-> [project |-> n, project_id_label |-> Some(0), idle_label |-> 0,
              admin_secret |-> 0, project_id_arg |-> 0, proxy_fqdn |-> None],
     nets |-> {UserNet}, fresh |-> FALSE, cpu |-> 0]

Init ==
    /\ projects = [n \in AllNames |-> None]
    /\ custom_domains = [f \in Fqdns |-> None]
    /\ host \in HostModes
    /\ docker \in [ValidNames -> {None} \cup
                    (IF host = "connect_fails"
                     THEN {Some(LabelledContainer(n)) : n \in ValidNames} ELSE {})]
    /\ next_cid = 1
    /\ next_key = 1
    /\ next_ulid = 1
    /\ created = [n \in AllNames |-> None]
    /\ router = TaskRouter_new
    /\ calls = [pending |-> [a \in Accounts |-> None],
                returned |-> [a \in Accounts |-> None],
                inserted |-> [n \in AllNames |-> 0]]
    /\ events = [n \in ValidNames |-> 0]
    /\ ret = [op |-> "init"]

StateOf(n) == Get(projects[n]).project_state

----------------------------------------------------------------------------
(* Operations of the service *)

\* The call draws fresh values for the key and the two ULIDs.  A name is
\* created a second time, after Destroyed, only under the hosts "cooperative"
\* and "remove_fails"; callers that are refused call under every host.
CreateProject(n, a, is_admin, idle) ==
    \E d \in DomainChoices(projects, custom_domains, n) :
        LET r == [initial_key |-> next_key, ulid_new |-> next_ulid,
                  ulid_sql |-> next_ulid + 1, domain |-> d]
            out == create_project(projects, custom_domains, n, a, is_admin, idle, r)
            inserted == out.res.ok /\ ~IsSome(projects[n])
        IN  /\ out.res.ok => next_key <= MaxKeys
            /\ idle \in IF host = "busy" THEN 1 .. MaxWindow
                       ELSE IF host = "crashing" THEN {0} ELSE 0 .. MaxIdle
            /\ inserted => a = FirstAccount
            /\ (out.res.ok /\ ~inserted) => host \in {"cooperative", "remove_fails"}
            /\ projects' = out.projects
            /\ next_key' = IF out.res.ok THEN next_key + 1 ELSE next_key
            /\ next_ulid' = IF inserted THEN next_ulid + 2 ELSE next_ulid
            /\ created' = IF out.res.ok
                          THEN [created EXCEPT ![n] = Some(out.res.v)]
                          ELSE created
            /\ ret' = [op |-> "create_project", project_name |-> n,
                       by_owner_or_admin |-> IsSome(projects[n]) /\
                            (Get(projects[n]).account_name = a \/ is_admin),
                       res |-> out.res]
            /\ UNCHANGED <<custom_domains, docker, next_cid, host, router, calls, events>>

CreateCustomDomain(n, f, certs, private_key) ==
    /\ host = "cooperative"
    /\ LET out == create_custom_domain(projects, custom_domains, n, f, certs, private_key)
       IN  /\ custom_domains' = out.custom_domains
           /\ ret' = [op |-> "create_custom_domain", project_name |-> n, fqdn |-> f,
                      certificate |-> certs, private_key |-> private_key,
                      ok |-> out.res.ok]
    /\ UNCHANGED <<projects, docker, next_cid, next_key, next_ulid, host, created, router, calls, events>>

Route(n) ==
    /\ IsSome(projects[n])
    /\ \E proxied \in BOOLEAN :
        ret' = [op |-> "route", project_name |-> n]
               @@ route(projects, StateOf(n), n, proxied)
    /\ UNCHANGED <<projects, custom_domains, docker, next_cid, next_key, next_ulid, host, created, router, calls, events>>

\* the task destroy: Project::destroy, persisted
TaskDestroy(n) ==
    /\ host \notin {"connect_fails", "busy", "killed", "crashing"}
    /\ IsSome(projects[n])
    /\ StateOf(n).tag \notin {"destroying", "destroyed"}
    /\ projects' = update_project(projects, n, Project_destroy(StateOf(n)).v)
    /\ ret' = [op |-> "destroy"]
    /\ UNCHANGED <<custom_domains, docker, next_cid, next_key, next_ulid, host, created, router, calls, events>>

\* a task that reboots the project: Project::reboot, persisted
TaskReboot(n) ==
    /\ host \in {"faulty", "crashing"}
    /\ IsSome(projects[n])
    /\ Project_reboot(StateOf(n)).ok
    /\ StateOf(n).tag # "rebooting"
    /\ projects' = update_project(projects, n, Project_reboot(StateOf(n)).v)
    /\ ret' = [op |-> "reboot"]
    /\ UNCHANGED <<custom_domains, docker, next_cid, next_key, next_ulid, host, created, router, calls, events>>

\* a task that stops the project: Project::stop, persisted when it succeeds
TaskStop(n) ==
    /\ host = "cooperative"
    /\ IsSome(projects[n])
    /\ StateOf(n).tag # "stopping"
    /\ LET res == Project_stop(StateOf(n))
       IN  /\ projects' = IF res.ok THEN update_project(projects, n, res.v) ELSE projects
           /\ ret' = [op |-> "stop", project_name |-> n, ok |-> res.ok]
    /\ UNCHANGED <<custom_domains, docker, next_cid, next_key, next_ulid, host, created, router, calls, events>>

\* a task that starts the project: Project::start, persisted when it succeeds
TaskStart(n) ==
    /\ host = "cooperative"
    /\ IsSome(projects[n])
    /\ StateOf(n).tag \in {"stopped", "destroyed"}
    /\ LET res == Project_start(StateOf(n))
       IN  /\ projects' = IF res.ok THEN update_project(projects, n, res.v) ELSE projects
           /\ ret' = [op |-> "start", project_name |-> n, ok |-> res.ok]
    /\ UNCHANGED <<custom_domains, docker, next_cid, next_key, next_ulid, host, created, router, calls, events>>

\* the task check_health: Project::refresh, persisted when it succeeds.  The
\* tasks of one project run one at a time; on the "killed" host no task is
\* ever abandoned, so the health check finds the state the last task ended in
CheckHealthOn(n, tags) ==
    /\ host # "connect_fails"
    /\ IsSome(projects[n])
    /\ StateOf(n).tag \in tags
    /\ host = "killed" => Project_is_done(StateOf(n))
    /\ \E flag \in Flags("inspect") :
        LET out == Project_refresh(StateOf(n), docker, flag)
        IN  /\ projects' = IF out.ok THEN update_project(projects, n, out.v) ELSE projects
            /\ ret' = [op |-> "refresh", project_name |-> n, flag |-> flag, ok |-> out.ok]
    /\ UNCHANGED <<custom_domains, docker, next_cid, next_key, next_ulid, host, created, router, calls, events>>

\* the health check of a project in a state refresh looks at the container of
CheckHealth(n) == CheckHealthOn(n, {"starting", "started", "ready", "stopping"})

\* the health check of a project in any state
CheckHealthAll(n) == CheckHealthOn(n, ProjectTags)

----------------------------------------------------------------------------
(* One step of the task run_until_done: load the state, Project::next, persist *)

\* the start events of the container named n after a step that turned the
\* host from `before` into `after`: a container that was not running and now
\* runs has logged one; the events of a container that is gone are not its
\* successor's.  Only the "crashing" host keeps the log.
StartEvents(n, before, after) ==
    IF host # "crashing" THEN events[n]
    ELSE IF ~IsSome(after[n]) \/ ~IsSome(before[n]) THEN 0
    ELSE IF Get(after[n]).id # Get(before[n]).id THEN 0
    ELSE IF Get(after[n]).status = "running" /\ Get(before[n]).status # "running"
    THEN events[n] + 1
    ELSE events[n]

\* codes: what the host answered to the calls of the step, where the step
\* reports it
CommitCalls(n, self, res, dk, cid, codes) ==
    /\ StartEvents(n, docker, dk) <= MaxStartEvents
    /\ projects' = update_project(projects, n, Project_next(self, res))
    /\ docker' = dk
    /\ events' = [events EXCEPT ![n] = StartEvents(n, docker, dk)]
    /\ next_cid' = cid
    /\ ret' = [op |-> "next", project_name |-> n, from |-> self.tag, codes |-> codes,
               err |-> IF res.ok THEN "none" ELSE res.e.kind]
    /\ UNCHANGED <<custom_domains, next_key, next_ulid, host, created, router, calls>>

Commit(n, self, res, dk, cid) == CommitCalls(n, self, res, dk, cid, "none")

At(n, tag) == IsSome(projects[n]) /\ StateOf(n).tag = tag

StepCreating(n) ==
    /\ At(n, "creating")
    /\ \E o \in [inspect : Flags("inspect"), create : Flags("create"),
                 inspect2 : Flags("inspect")] :
        LET out == ProjectCreating_next(StateOf(n), docker, next_cid, o)
        IN  /\ out.next_cid <= MaxContainers + 1
            /\ Commit(n, StateOf(n), out.res, out.docker, out.next_cid)

StepAttaching(n) ==
    /\ At(n, "attaching")
    /\ \E o \in [disconnect : Flags("disconnect"), connect : Flags("connect"),
                 inspect : Flags("inspect")] :
        LET out == ProjectAttaching_next(StateOf(n), docker, o)
        IN  CommitCalls(n, StateOf(n), out.res, out.docker, next_cid, out.codes)

StepRecreating(n) ==
    /\ At(n, "recreating")
    /\ \E o \in [stop : Flags("stop"), remove : Flags("remove")] :
        LET out == ProjectRecreating_next(StateOf(n), docker, o)
        IN  Commit(n, StateOf(n), out.res, out.docker, next_cid)

StepStarting(n) ==
    /\ At(n, "starting")
    /\ \E o \in [start : Flags("start"), inspect : Flags("inspect")] :
        LET out == ProjectStarting_next(StateOf(n), docker, o)
        IN  CommitCalls(n, StateOf(n), out.res, out.docker, next_cid, out.codes)

StepRestarting(n) ==
    /\ At(n, "restarting")
    /\ \E o \in [stop : Flags("stop")] :
        LET out == ProjectRestarting_next(StateOf(n), docker, o)
        IN  Commit(n, StateOf(n), out.res, out.docker, next_cid)

StepStarted(n) ==
    /\ At(n, "started")
    /\ \E net \in {BridgeNet, UserNet} :
       \E o \in [inspect : Flags("inspect"), probe : BOOLEAN, stats : Flags("stats")] :
        LET out == ProjectStarted_next(StateOf(n), docker, o, net)
        IN  /\ IsSome(docker[n]) => /\ o.probe \in Probes(Get(docker[n]))
                                    /\ Get(docker[n]).nets # {} => net \in Get(docker[n]).nets
            /\ ~IsSome(docker[n]) => ~o.probe
            /\ \/ CommitCalls(n, StateOf(n), out.res, docker, next_cid, out.codes)
               \/ /\ out.panic
                  /\ ret' = [op |-> "next", project_name |-> n, from |-> "started",
                             codes |-> out.codes, err |-> "panic"]
                  /\ UNCHANGED <<projects, custom_domains, docker, next_cid, next_key, next_ulid, host, created, router, calls, events>>

StepStopping(n) ==
    /\ At(n, "stopping")
    /\ \E o \in [kill : Flags("kill"), inspect : Flags("inspect")] :
        LET out == ProjectStopping_next(StateOf(n), docker, o)
        IN  Commit(n, StateOf(n), out.res, out.docker, next_cid)

StepRebooting(n) ==
    /\ At(n, "rebooting")
    /\ \E o \in [stop : Flags("stop"), inspect : Flags("inspect"),
                 events : Flags("events"),
                 starts : IF host = "crashing" THEN {events[n]} ELSE 0 .. MAX_REBOOTS] :
        LET out == ProjectRebooting_next(StateOf(n), docker, o)
        IN  Commit(n, StateOf(n), out.res, out.docker, next_cid)

StepDestroying(n) ==
    /\ At(n, "destroying")
    /\ \E o \in [stop : Flags("stop"), remove : Flags("remove")] :
        LET out == ProjectDestroying_next(StateOf(n), docker, o)
        IN  CommitCalls(n, StateOf(n), out.res, out.docker, next_cid, o)

\* next of Ready, Stopped and Destroyed returns the state it was given
StepReady(n) ==
    /\ At(n, "ready")
    /\ Commit(n, StateOf(n), Ok(StateOf(n)), docker, next_cid)

StepStopped(n) ==
    /\ At(n, "stopped")
    /\ Commit(n, StateOf(n), Ok(StateOf(n)), docker, next_cid)

StepDestroyed(n) ==
    /\ At(n, "destroyed")
    /\ Commit(n, StateOf(n), Ok(StateOf(n)), docker, next_cid)

\* the arm of Errored returns the state it was given, and Project::next then
\* sets its previous state
StepErrored(n) ==
    /\ At(n, "errored")
    /\ Nesting(StateOf(n)) < MaxNesting
    /\ Commit(n, StateOf(n), Ok(StateOf(n)), docker, next_cid)

----------------------------------------------------------------------------
(* What happens on the host without the gateway *)

Running(n) == IsSome(docker[n]) /\ Get(docker[n]).status = "running"

HostChange(n, c) ==
    /\ host \in {"faulty", "busy", "killed", "crashing"}
    /\ docker' = [docker EXCEPT ![n] = c]
    /\ ret' = [op |-> "host"]
    /\ UNCHANGED <<projects, custom_domains, next_cid, next_key, next_ulid, host, created, router, calls, events>>

\* the container's process dies
ContainerExits(n) ==
    /\ \/ host \in {"faulty", "crashing"}
       \/ host = "killed" /\ At(n, "ready")
    /\ Running(n)
    /\ HostChange(n, Some([Get(docker[n]) EXCEPT !.status = "exited"]))

\* the container is removed
ContainerRemoved(n) ==
    /\ host = "faulty"
    /\ IsSome(docker[n])
    /\ HostChange(n, None)

\* 120 s pass since the container started
GraceExpires(n) ==
    /\ host = "faulty"
    /\ IsSome(docker[n]) /\ Get(docker[n]).fresh
    /\ HostChange(n, Some([Get(docker[n]) EXCEPT !.fresh = FALSE]))

\* the container uses CPU; only the idle check of a container with
\* idle_minutes >= 1 reads the counter
ContainerWorks(n) ==
    /\ Running(n)
    /\ Get(docker[n]).cfg.idle_label >= 1
    /\ Get(docker[n]).cpu < CpuBurst * (IF host = "busy" THEN MaxWindow ELSE MaxCpuBursts)
    /\ HostChange(n, Some([Get(docker[n]) EXCEPT !.cpu = @ + CpuBurst]))

\* the oldest start event of the container is now older than 15 minutes
EventsExpire(n) ==
    /\ host = "crashing"
    /\ events[n] > 0
    /\ events' = [events EXCEPT ![n] = @ - 1]
    /\ ret' = [op |-> "host"]
    /\ UNCHANGED <<projects, custom_domains, docker, next_cid, next_key, next_ulid, host,
                   created, router, calls>>

\* somebody else restarts the running container: its CPU counter starts again
ContainerRestarted(n) ==
    /\ host = "faulty"
    /\ Running(n)
    /\ Get(docker[n]).cpu > 0
    /\ HostChange(n, Some([Get(docker[n]) EXCEPT !.cpu = 0, !.fresh = TRUE]))

----------------------------------------------------------------------------

Next ==
    \/ \E n \in AllNames, a \in Accounts, is_admin \in BOOLEAN, idle \in IdleChoices :
            CreateProject(n, a, is_admin, idle)
    \/ \E n \in ValidNames, f \in Fqdns :
            /\ IsSome(projects[n])
            /\ CreateCustomDomain(n, f, "dummy certificate", "dummy private key")
    \/ \E n \in ValidNames : Route(n)
    \/ \E n \in ValidNames : TaskDestroy(n)
    \/ \E n \in ValidNames : TaskReboot(n)
    \/ \E n \in ValidNames : TaskStop(n)
    \/ \E n \in ValidNames : TaskStart(n)
    \/ \E n \in ValidNames : CheckHealth(n)
    \/ \E n \in ValidNames : StepCreating(n)
    \/ \E n \in ValidNames : StepAttaching(n)
    \/ \E n \in ValidNames : StepRecreating(n)
    \/ \E n \in ValidNames : StepStarting(n)
    \/ \E n \in ValidNames : StepRestarting(n)
    \/ \E n \in ValidNames : StepStarted(n)
    \/ \E n \in ValidNames : StepStopping(n)
    \/ \E n \in ValidNames : StepRebooting(n)
    \/ \E n \in ValidNames : StepDestroying(n)
    \/ \E n \in ValidNames : StepReady(n)
    \/ \E n \in ValidNames : StepStopped(n)
    \/ \E n \in ValidNames : StepDestroyed(n)
    \/ \E n \in ValidNames : StepErrored(n)
    \/ \E n \in ValidNames : ContainerExits(n)
    \/ \E n \in ValidNames : ContainerRemoved(n)
    \/ \E n \in ValidNames : GraceExpires(n)
    \/ \E n \in ValidNames : ContainerWorks(n)
    \/ \E n \in ValidNames : ContainerRestarted(n)
    \/ \E n \in ValidNames : EventsExpire(n)

Spec == Init /\ [][Next]_vars

\* run_until_done polls next until the state is done
RunUntilDone(n) ==
    \/ StepCreating(n) \/ StepAttaching(n) \/ StepRecreating(n)
    \/ StepStarting(n) \/ StepRestarting(n) \/ StepStarted(n)
    \/ StepStopping(n) \/ StepRebooting(n) \/ StepDestroying(n)

\* The TaskRouter on its own: tasks are sent, taken by the worker of their
\* project, polled (next, then update_project) and ended.
InitRouter == Init /\ host = "cooperative"

Send(p) ==
    /\ router.next_task <= MaxTasks
    /\ router' = TaskRouter_route(router, p)
    /\ UNCHANGED <<projects, custom_domains, docker, next_cid, next_key, next_ulid,
                   host, created, calls, events, ret>>

WorkerStart(p) ==
    /\ router.table[p] # <<>>
    /\ Worker_idle(router, p)
    /\ router' = Worker_recv(router, p)
    /\ UNCHANGED <<projects, custom_domains, docker, next_cid, next_key, next_ulid,
                   host, created, calls, events, ret>>

PollNext(p) ==
    /\ router.executing[p] # {}
    /\ poll_ready(router, p)
    /\ router.produced[p] < MaxPolls
    /\ router' = [router EXCEPT !.produced[p] = @ + 1]
    /\ UNCHANGED <<projects, custom_domains, docker, next_cid, next_key, next_ulid,
                   host, created, calls, events, ret>>

PollPersist(p) ==
    /\ router.committed[p] < router.produced[p]
    /\ router' = [router EXCEPT !.committed[p] = @ + 1]
    /\ UNCHANGED <<projects, custom_domains, docker, next_cid, next_key, next_ulid,
                   host, created, calls, events, ret>>

TaskDone(p) ==
    /\ router.executing[p] # {}
    /\ router.committed[p] = router.produced[p]
    /\ router' = [router EXCEPT !.finished[p] = @ \cup router.executing[p],
                                !.executing[p] = {}]
    /\ UNCHANGED <<projects, custom_domains, docker, next_cid, next_key, next_ulid,
                   host, created, calls, events, ret>>

NextRouter ==
    \/ \E p \in RouterNames : Send(p)
    \/ \E p \in RouterNames : WorkerStart(p)
    \/ \E p \in RouterNames : PollNext(p)
    \/ \E p \in RouterNames : PollPersist(p)
    \/ \E p \in RouterNames : TaskDone(p)

SpecRouter == InitRouter /\ [][NextRouter]_vars

\* create_project statement by statement, for callers that run at once.
\* calls.pending: account -> the call of the account whose SELECT has run;
\* calls.returned: account -> what the last call of the account returned;
\* calls.inserted: name -> the rows these calls have inserted for the name.
InitCreate == Init /\ host = "cooperative"

CreateSelect(a, n, is_admin, idle) ==
    /\ ~IsSome(calls.pending[a])
    /\ calls' = [calls EXCEPT
            !.pending[a] = Some([project_name |-> n, is_admin |-> is_admin,
                                 idle_minutes |-> idle,
                                 seen |-> IF IsSome(projects[n]) /\
                                             (Get(projects[n]).account_name = a \/ is_admin)
                                          THEN projects[n] ELSE None,
                                 existed |-> IsSome(projects[n])]),
            !.returned[a] = None]
    /\ ret' = [op |-> "select", account_name |-> a]
    /\ UNCHANGED <<projects, custom_domains, docker, next_cid, next_key, next_ulid, host,
                   created, router, events>>

CreateWrite(a) ==
    /\ IsSome(calls.pending[a])
    /\ LET call == Get(calls.pending[a])
           n == call.project_name
       IN  \E d \in DomainChoices(projects, custom_domains, n) :
            LET r == [initial_key |-> next_key, ulid_new |-> next_ulid,
                      ulid_sql |-> next_ulid + 1, domain |-> d]
                out == create_project_after(call.seen, projects, custom_domains, n, a,
                                            call.is_admin, call.idle_minutes, r)
                inserted == out.res.ok /\ ~IsSome(call.seen)
            IN  /\ out.res.ok => next_key <= MaxKeys
                /\ projects' = out.projects
                /\ next_key' = IF out.res.ok THEN next_key + 1 ELSE next_key
                /\ next_ulid' = IF inserted THEN next_ulid + 2 ELSE next_ulid
                /\ created' = IF out.res.ok
                              THEN [created EXCEPT ![n] = Some(out.res.v)]
                              ELSE created
                /\ calls' = [calls EXCEPT
                        !.pending[a] = None,
                        !.returned[a] = Some([project_name |-> n, existed |-> call.existed,
                                              res |-> out.res]),
                        !.inserted[n] = IF inserted THEN @ + 1 ELSE @]
                /\ ret' = [op |-> "write", account_name |-> a]
    /\ UNCHANGED <<custom_domains, docker, next_cid, host, router, events>>

NextCreate ==
    \/ \E a \in Accounts, n \in AllNames, is_admin \in BOOLEAN, idle \in 0 .. MaxIdle :
            CreateSelect(a, n, is_admin, idle)
    \/ \E a \in Accounts : CreateWrite(a)
    \/ \E n \in ValidNames : TaskDestroy(n)

SpecCreate == InitCreate /\ [][NextCreate]_vars

\* The custom domains of a gateway whose table holds a project made before the
\* rules for names changed.
LegacyRow == Row(0, "trinity", 0, Destroyed(None))

InitDomains ==
    /\ projects = [n \in AllNames |-> IF n \in ValidNames THEN None ELSE Some(LegacyRow)]
    /\ custom_domains = [f \in Fqdns |-> None]
    /\ host = "cooperative"
    /\ docker = [n \in ValidNames |-> None]
    /\ next_cid = 1
    /\ next_key = 1
    /\ next_ulid = 1
    /\ created = [n \in AllNames |-> None]
    /\ router = TaskRouter_new
    /\ calls = [pending |-> [a \in Accounts |-> None],
                returned |-> [a \in Accounts |-> None],
                inserted |-> [n \in AllNames |-> 0]]
    /\ events = [n \in ValidNames |-> 0]
    /\ ret = [op |-> "init"]

ProjectDetails(f) ==
    /\ ret' = [op |-> "project_details_for_custom_domain", fqdn |-> f,
               res |-> project_details_for_custom_domain(projects, custom_domains, f)]
    /\ UNCHANGED <<projects, custom_domains, docker, next_cid, next_key, next_ulid, host,
                   created, router, calls, events>>

NextDomains ==
    \/ \E n \in AllNames, a \in Accounts, is_admin \in BOOLEAN, idle \in IdleChoices :
            CreateProject(n, a, is_admin, idle)
    \/ \E n \in AllNames, f \in Fqdns, certs \in Certificates, private_key \in PrivateKeys :
            CreateCustomDomain(n, f, certs, private_key)
    \/ \E f \in Fqdns : ProjectDetails(f)

SpecDomains == InitDomains /\ [][NextDomains]_vars

\* The gateway on the "killed" host.  The health-check sweep runs again and
\* again, and a task that was started is polled until it is done.
InitKilled == Init /\ host = "killed"

NextKilled ==
    \/ \E n \in AllNames, a \in Accounts, is_admin \in BOOLEAN, idle \in IdleChoices :
            CreateProject(n, a, is_admin, idle)
    \/ \E n \in ValidNames : Route(n)
    \/ \E n \in ValidNames : CheckHealth(n)
    \/ \E n \in ValidNames : StepCreating(n)
    \/ \E n \in ValidNames : StepAttaching(n)
    \/ \E n \in ValidNames : StepStarting(n)
    \/ \E n \in ValidNames : StepRestarting(n)
    \/ \E n \in ValidNames : StepStarted(n)
    \/ \E n \in ValidNames : StepStopping(n)
    \/ \E n \in ValidNames : ContainerExits(n)

SpecKilled ==
    /\ InitKilled /\ [][NextKilled]_vars
    /\ \A n \in ValidNames : WF_vars(CheckHealth(n)) /\ WF_vars(RunUntilDone(n))

\* a container that was created and never started is left alone
exec_revive_running_only(self, dk, flag) ==
    LET handle == IF self.tag = "stopped" THEN Some(self.container)
                  ELSE IF self.tag = "errored" /\ IsSome(self.ctx)
                  THEN Project_container(Get(self.ctx))
                  ELSE None
        container == ContainerInspectResponse_refresh(
                        dk, Get(handle).cfg.project, Get(handle).id, flag)
    IN  IF ~IsSome(handle) \/ ~container.ok THEN None
        ELSE IF self.tag = "stopped" THEN Some(Rebooting(Get(Project_container(self))))
        ELSE IF container.v.status = "exited"
        THEN Some(Rebooting(Get(Project_container(self))))
        ELSE IF container.v.status = "running"
        THEN Some(Starting(Get(Project_container(self)), 0))
        ELSE None

\* exec::revive for one stored project: the state the task it enqueues stores,
\* if it enqueues one.  flag: the flag of the inspect call
exec_revive(self, dk, flag) ==
    LET handle == IF self.tag = "stopped" THEN Some(self.container)
                  ELSE IF self.tag = "errored" /\ IsSome(self.ctx)
                  THEN Project_container(Get(self.ctx))
                  ELSE None
        container == ContainerInspectResponse_refresh(
                        dk, Get(handle).cfg.project, Get(handle).id, flag)
    IN  IF ~IsSome(handle) \/ ~container.ok THEN None
        ELSE IF self.tag = "stopped" THEN Some(Rebooting(Get(Project_container(self))))
        ELSE IF container.v.status = "exited"
        THEN Some(Rebooting(Get(Project_container(self))))
        ELSE IF container.v.status \in {"running", "created"}
        THEN Some(Starting(Get(Project_container(self)), 0))
        ELSE None

\* The gateway stops between two steps and starts again: what the table holds
\* is what the last step stored, and the sweep of the start-up runs over it.
\* The task the sweep enqueues stores its state.
Revive(n) ==
    /\ IsSome(projects[n])
    /\ \E flag \in Flags("inspect") :
        LET task == exec_revive(StateOf(n), docker, flag)
        IN  /\ projects' = IF IsSome(task) THEN update_project(projects, n, Get(task))
                           ELSE projects
            /\ ret' = [op |-> "revive", project_name |-> n, from |-> StateOf(n).tag,
                       flag |-> flag,
                       task |-> IF IsSome(task) THEN Get(task).tag ELSE "none"]
    /\ UNCHANGED <<custom_domains, docker, next_cid, next_key, next_ulid, host, created,
                   router, calls, events>>

\* The gateway restarted at any point of a project's life, on a host whose
\* calls can fail and whose containers exit; the sweeps of the gateway (health
\* check, revival) run over projects in every state.
InitRevive == Init /\ host = "faulty"

NextRevive ==
    \/ \E n \in AllNames, a \in Accounts, is_admin \in BOOLEAN, idle \in IdleChoices :
            CreateProject(n, a, is_admin, idle)
    \/ \E n \in ValidNames : StepCreating(n)
    \/ \E n \in ValidNames : StepAttaching(n)
    \/ \E n \in ValidNames : StepRecreating(n)
    \/ \E n \in ValidNames : StepStarting(n)
    \/ \E n \in ValidNames : StepRestarting(n)
    \/ \E n \in ValidNames : StepStarted(n)
    \/ \E n \in ValidNames : StepStopping(n)
    \/ \E n \in ValidNames : StepRebooting(n)
    \/ \E n \in ValidNames : StepDestroying(n)
    \/ \E n \in ValidNames : TaskDestroy(n)
    \/ \E n \in ValidNames : CheckHealthAll(n)
    \/ \E n \in ValidNames : ContainerExits(n)
    \/ \E n \in ValidNames : Revive(n)

SpecRevive == InitRevive /\ [][NextRevive]_vars

\* the host drops a network of the container, or another client attaches the
\* container to the user network
NetworkDetached(n) ==
    /\ host = "faulty"
    /\ IsSome(docker[n])
    /\ \E net \in Get(docker[n]).nets :
        HostChange(n, Some([Get(docker[n]) EXCEPT !.nets = @ \ {net}]))

NetworkAttached(n) ==
    /\ host = "faulty"
    /\ IsSome(docker[n])
    /\ UserNet \notin Get(docker[n]).nets
    /\ HostChange(n, Some([Get(docker[n]) EXCEPT !.nets = @ \cup {UserNet}]))

\* The way from Creating to Started on hosts whose calls fail and where the
\* networks of a container change between the steps of the gateway.
InitCalls == Init /\ host \in {"faulty", "connect_fails"}

NextCalls ==
    \/ \E n \in AllNames, a \in Accounts, is_admin \in BOOLEAN, idle \in IdleChoices :
            CreateProject(n, a, is_admin, idle)
    \/ \E n \in ValidNames : StepCreating(n)
    \/ \E n \in ValidNames : StepAttaching(n)
    \/ \E n \in ValidNames : StepRecreating(n)
    \/ \E n \in ValidNames : StepStarting(n)
    \/ \E n \in ValidNames : StepRestarting(n)
    \/ \E n \in ValidNames : NetworkDetached(n)
    \/ \E n \in ValidNames : NetworkAttached(n)
    \/ \E n \in ValidNames : ContainerRemoved(n)

SpecCalls == InitCalls /\ [][NextCalls]_vars

\* The gateway polling a task to completion while the clock advances: the
\* host answers as it likes, containers exit, nobody restarts them.
InitGrace == Init /\ host = "faulty"

NextGrace ==
    \/ \E n \in AllNames, a \in Accounts, is_admin \in BOOLEAN, idle \in IdleChoices :
            CreateProject(n, a, is_admin, idle)
    \/ \E n \in ValidNames : StepCreating(n)
    \/ \E n \in ValidNames : StepAttaching(n)
    \/ \E n \in ValidNames : StepRecreating(n)
    \/ \E n \in ValidNames : StepStarting(n)
    \/ \E n \in ValidNames : StepRestarting(n)
    \/ \E n \in ValidNames : StepStarted(n)
    \/ \E n \in ValidNames : ContainerExits(n)
    \/ \E n \in ValidNames : GraceExpires(n)

SpecGrace ==
    /\ InitGrace /\ [][NextGrace]_vars
    /\ \A n \in ValidNames : WF_vars(StepStarted(n)) /\ WF_vars(GraceExpires(n))

\* Inbound traffic for a project that may be idle.  calls.pending: caller ->
\* the call of the caller that waits for the task it sent, with the steps the
\* task still has to run; calls.returned: caller -> what the last call of the
\* caller returned.

\* the call sends the task for every project that is not Ready
find_or_start_project_not_ready(tbl, project_name) ==
    LET project == find_project(tbl, project_name)
    IN  IF ~project.ok THEN [send |-> FALSE, res |-> Some(project)]
        ELSE IF ~Project_is_ready(project.v) THEN [send |-> TRUE, res |-> None]
        ELSE [send |-> FALSE, res |-> Some(project)]

\* find_or_start_project up to the send: whether the task is sent, and what
\* is returned when it is not
find_or_start_project(tbl, project_name) ==
    LET project == find_project(tbl, project_name)
    IN  IF ~project.ok THEN [send |-> FALSE, res |-> Some(project)]
        ELSE IF Project_is_stopped(project.v) THEN [send |-> TRUE, res |-> None]
        ELSE [send |-> FALSE, res |-> Some(project)]

StartTask == <<"start", "run_until_done", "start_idle_deploys", "check_health">>

FindOrStartProject(a, n) ==
    /\ ~IsSome(calls.pending[a])
    /\ LET out == find_or_start_project(projects, n)
       IN  /\ calls' = [calls EXCEPT
                    !.pending[a] = IF out.send
                                   THEN Some([project_name |-> n, task |-> StartTask])
                                   ELSE None,
                    !.returned[a] = out.res]
           /\ ret' = [op |-> "find_or_start_project", project_name |-> n, account |-> a,
                      sent |-> out.send]
    /\ UNCHANGED <<projects, custom_domains, docker, next_cid, next_key, next_ulid, host,
                   created, router, events>>

\* the task of caller a is under way: it ran a step and has steps left
UnderWay(a) ==
    /\ IsSome(calls.pending[a])
    /\ Get(calls.pending[a]).task # <<>>
    /\ Get(calls.pending[a]).task # StartTask

\* One step of the task the call sent.  The tasks of a project run one after
\* the other; run_until_done ends when the state is done; a step that fails
\* ends the task.
TaskStep(a) ==
    /\ IsSome(calls.pending[a])
    /\ Get(calls.pending[a]).task # <<>>
    /\ \A b \in Accounts \ {a} : ~UnderWay(b)
    /\ LET n == Get(calls.pending[a]).project_name
           step == Head(Get(calls.pending[a]).task)
           started == Project_start(StateOf(n))
           refreshed == Project_refresh(StateOf(n), docker, "ok")
           failed == \/ step = "start" /\ ~started.ok
                     \/ step = "check_health" /\ ~refreshed.ok
       IN  /\ step = "run_until_done" => Project_is_done(StateOf(n))
           /\ projects' = IF step = "start" /\ started.ok
                          THEN update_project(projects, n, started.v)
                          ELSE IF step = "check_health" /\ refreshed.ok
                          THEN update_project(projects, n, refreshed.v)
                          ELSE projects
           /\ calls' = [calls EXCEPT !.pending[a] =
                            Some([Get(@) EXCEPT !.task = IF failed THEN <<>> ELSE Tail(@)])]
           /\ ret' = [op |-> "task", project_name |-> n, account |-> a, step |-> step,
                      ok |-> ~failed]
    /\ UNCHANGED <<custom_domains, docker, next_cid, next_key, next_ulid, host, created,
                   router, events>>

\* the handle resolves: the call reads the state again and returns it
FindOrStartReturns(a) ==
    /\ IsSome(calls.pending[a])
    /\ Get(calls.pending[a]).task = <<>>
    /\ LET n == Get(calls.pending[a]).project_name
       IN  /\ calls' = [calls EXCEPT !.pending[a] = None,
                                     !.returned[a] = Some(find_project(projects, n))]
           /\ ret' = [op |-> "find_or_start_project_returns", project_name |-> n,
                      account |-> a]
    /\ UNCHANGED <<projects, custom_domains, docker, next_cid, next_key, next_ulid, host,
                   created, router, events>>

InitTraffic == Init /\ host = "cooperative"

NextTraffic ==
    \/ \E n \in AllNames, a \in Accounts, is_admin \in BOOLEAN, idle \in IdleChoices :
            CreateProject(n, a, is_admin, idle)
    \/ \E n \in ValidNames : StepCreating(n)
    \/ \E n \in ValidNames : StepAttaching(n)
    \/ \E n \in ValidNames : StepStarting(n)
    \/ \E n \in ValidNames : StepStarted(n)
    \/ \E n \in ValidNames : StepStopping(n)
    \/ \E n \in ValidNames : TaskStop(n)
    \/ \E a \in Accounts, n \in AllNames : FindOrStartProject(a, n)
    \/ \E a \in Accounts : TaskStep(a)
    \/ \E a \in Accounts : FindOrStartReturns(a)

SpecTraffic == InitTraffic /\ [][NextTraffic]_vars

\* A task polled until its state is done, from every state a project can be
\* stored in: the host may fail any call, containers exit or are removed and
\* time passes.  The tasks of a project run one after the other: a destroy
\* task, a reboot task or a health check starts when the task before it has
\* ended, with the project in a done state.
InitDone == Init /\ host = "faulty"

BetweenTasks(n) == IsSome(projects[n]) /\ Project_is_done(StateOf(n))

NextDone ==
    \/ \E n \in AllNames, a \in Accounts, is_admin \in BOOLEAN, idle \in IdleChoices :
            CreateProject(n, a, is_admin, idle)
    \/ \E n \in ValidNames : BetweenTasks(n) /\ TaskDestroy(n)
    \/ \E n \in ValidNames : BetweenTasks(n) /\ TaskReboot(n)
    \/ \E n \in ValidNames : BetweenTasks(n) /\ CheckHealth(n)
    \/ \E n \in ValidNames : StepCreating(n)
    \/ \E n \in ValidNames : StepAttaching(n)
    \/ \E n \in ValidNames : StepRecreating(n)
    \/ \E n \in ValidNames : StepStarting(n)
    \/ \E n \in ValidNames : StepRestarting(n)
    \/ \E n \in ValidNames : StepStarted(n)
    \/ \E n \in ValidNames : StepStopping(n)
    \/ \E n \in ValidNames : StepRebooting(n)
    \/ \E n \in ValidNames : StepDestroying(n)
    \/ \E n \in ValidNames : ContainerExits(n)
    \/ \E n \in ValidNames : ContainerRemoved(n)
    \/ \E n \in ValidNames : GraceExpires(n)

SpecDone ==
    /\ InitDone /\ [][NextDone]_vars
    /\ \A n \in ValidNames : WF_vars(RunUntilDone(n)) /\ WF_vars(GraceExpires(n))

\* create_project statement by statement on a gateway whose table holds a
\* project that was created and destroyed before.
DestroyedRow == Row(0, FirstAccount, 0, Destroyed(None))

InitRecreate ==
    /\ projects = [n \in AllNames |-> IF n \in ValidNames THEN Some(DestroyedRow) ELSE None]
    /\ custom_domains = [f \in Fqdns |-> None]
    /\ host = "cooperative"
    /\ docker = [n \in ValidNames |-> None]
    /\ next_cid = 1
    /\ next_key = 1
    /\ next_ulid = 1
    /\ created = [n \in AllNames |-> None]
    /\ router = TaskRouter_new
    /\ calls = [pending |-> [a \in Accounts |-> None],
                returned |-> [a \in Accounts |-> None],
                inserted |-> [n \in AllNames |-> IF n \in ValidNames THEN 1 ELSE 0]]
    /\ events = [n \in ValidNames |-> 0]
    /\ ret = [op |-> "init"]

NextRecreate ==
    \/ \E a \in Accounts, n \in AllNames, is_admin \in BOOLEAN, idle \in 0 .. MaxIdle :
            CreateSelect(a, n, is_admin, idle)
    \/ \E a \in Accounts : CreateWrite(a)

SpecRecreate == InitRecreate /\ [][NextRecreate]_vars

----------------------------------------------------------------------------
(* Properties *)

Stored(n) == IsSome(projects[n])
StateOf_next(n) == Get(projects'[n]).project_state

\* a step of run_until_done on n has just returned
Stepped(n) == Stored(n) /\ ret'.op = "next" /\ ret'.project_name = n /\ ret'.err # "panic"

\* create_project for n has just returned
Called(n) == ret'.op = "create_project" /\ ret'.project_name = n

\* C1: route answers ProjectNotReady for a project in every state other than
\* Ready, before it looks up the control key and before any proxy call; only for
\* a Ready project does it look up the key, call the proxy and forward to the
\* target address of the state's service.
C1_RouteOnlyReady ==
    ret.op = "route" =>
        LET project == StateOf(ret.project_name)
        IN  IF project.tag = "ready"
            THEN /\ ret.lookups = 1
                 /\ ret.proxy_calls = 1
                 /\ \/ ret.res = Ok(project.service.target)
                    \/ ret.res = Err("ProjectUnavailable")
            ELSE /\ ret.res = Err("ProjectNotReady")
                 /\ ret.lookups = 0
                 /\ ret.proxy_calls = 0

\* a request for a Started project that has derived its address was refused
C1_Witness ==
    /\ ret.op = "route"
    /\ StateOf(ret.project_name).tag = "started"
    /\ IsSome(StateOf(ret.project_name).service)
    /\ ret.res = Err("ProjectNotReady")

\* C2: Project::next always returns a state.  When the step of the variant
\* fails, an Attaching state whose failure is NoNetwork becomes Recreating and a
\* Starting state becomes Restarting, each with its container and counter; every
\* other failure becomes Errored whose previous state is the state next was
\* called on.
C2_NextNeverErrs ==
    [][\A n \in ValidNames : Stepped(n) =>
        LET self == StateOf(n)
            new == StateOf_next(n)
        IN  /\ new.tag \in ProjectTags
            /\ ret'.err # "none" =>
                IF self.tag = "attaching" /\ ret'.err = "NoNetwork"
                THEN new = Recreating(self.container, self.recreate_count)
                ELSE IF self.tag = "starting"
                THEN new = Restarting(self.container, self.restart_count)
                ELSE /\ new.tag = "errored"
                     /\ new.kind = ret'.err
                     /\ new.ctx = Some(self)]_vars

\* the probe of a Started project failed after the grace period
C2_Witness ==
    /\ ret.op = "next"
    /\ ret.err = "Internal"
    /\ StateOf(ret.project_name).tag = "errored"
    /\ StateOf(ret.project_name).message = MsgUnhealthy
    /\ Get(StateOf(ret.project_name).ctx).tag = "started"

RECURSIVE CountersBounded(_)
CountersBounded(project) ==
    /\ project.tag \in {"creating", "attaching", "recreating"} =>
            project.recreate_count <= MAX_RECREATES
    /\ project.tag \in {"starting", "restarting"} =>
            project.restart_count <= MAX_RESTARTS
    /\ (project.tag = "errored" /\ IsSome(project.ctx)) =>
            CountersBounded(Get(project.ctx))

\* C3: recreate_count never exceeds MAX_RECREATES and restart_count never
\* exceeds MAX_RESTARTS in a stored state; the step of Recreating with
\* recreate_count >= MAX_RECREATES yields Errored(Internal, "too many recreates")
\* and the step of Restarting with restart_count >= MAX_RESTARTS yields
\* Errored(Internal, "too many restarts").
C3_CountersBounded ==
    [][\A n \in ValidNames :
        /\ IsSome(projects'[n]) => CountersBounded(StateOf_next(n))
        /\ (Stepped(n) /\ StateOf(n).tag = "recreating"
                /\ StateOf(n).recreate_count >= MAX_RECREATES) =>
            /\ StateOf_next(n).tag = "errored"
            /\ StateOf_next(n).kind = "Internal"
            /\ StateOf_next(n).message = MsgTooManyRecreates
        /\ (Stepped(n) /\ StateOf(n).tag = "restarting"
                /\ StateOf(n).restart_count >= MAX_RESTARTS) =>
            /\ StateOf_next(n).tag = "errored"
            /\ StateOf_next(n).kind = "Internal"
            /\ StateOf_next(n).message = MsgTooManyRestarts]_vars

\* the sixth restart was refused
C3_Witness ==
    \E n \in ValidNames :
        /\ Stored(n)
        /\ StateOf(n).tag = "errored"
        /\ StateOf(n).message = MsgTooManyRestarts
        /\ Get(StateOf(n).ctx).tag = "restarting"
        /\ Get(StateOf(n).ctx).restart_count = MAX_RESTARTS

\* the container was made by the Creating step from the state create_project
\* returned: it runs with that state's --project-id
MadeByCreating(n, container) ==
    /\ IsSome(created[n])
    /\ container.cfg.project_id_arg = Get(created[n]).project_id
    /\ container.cfg.admin_secret = Get(created[n]).initial_key

\* C4: the step of Recreating, below the ceiling and for a container the
\* Creating step made, yields Creating with the project_name, project_id,
\* initial_key and idle_minutes the project was created with.
C4_RecreatingKeepsIdentity ==
    [][\A n \in ValidNames :
        (Stepped(n) /\ StateOf(n).tag = "recreating"
            /\ StateOf(n).recreate_count < MAX_RECREATES
            /\ MadeByCreating(n, StateOf(n).container)) =>
        /\ StateOf_next(n).tag = "creating"
        /\ StateOf_next(n).project_name = Get(created[n]).project_name
        /\ StateOf_next(n).project_id = Get(created[n]).project_id
        /\ StateOf_next(n).initial_key = Get(created[n]).initial_key
        /\ StateOf_next(n).idle_minutes = Get(created[n]).idle_minutes]_vars

\* C5: while every connect-network call fails with a non-409 error, a project
\* never reaches Starting, and the only Errored state it reaches is
\* Errored(Internal, "too many recreates"), out of Recreating with
\* recreate_count = MAX_RECREATES.
C5_ConnectFailsSettles ==
    \A n \in ValidNames : (host = "connect_fails" /\ Stored(n)) =>
        /\ StateOf(n).tag # "starting"
        /\ StateOf(n).tag = "errored" =>
            /\ StateOf(n).message = MsgTooManyRecreates
            /\ Get(StateOf(n).ctx).tag = "recreating"
            /\ Get(StateOf(n).ctx).recreate_count = MAX_RECREATES

\* C6: create_project for a name that is stored in a state other than Destroyed
\* returns ProjectAlreadyExists, whoever calls, and leaves the row of the name
\* (state, owner, initial_key) as it was.
C6_ExistingNameRefused ==
    [][\A n \in AllNames :
        (Called(n) /\ Stored(n) /\ ~Project_is_destroyed(StateOf(n))) =>
            /\ ret'.res = Err("ProjectAlreadyExists")
            /\ projects'[n] = projects[n]]_vars

\* the owner or an admin was refused for a Ready project
C6_Witness ==
    /\ ret.op = "create_project"
    /\ ret.by_owner_or_admin
    /\ ret.res = Err("ProjectAlreadyExists")
    /\ StateOf(ret.project_name).tag = "ready"

\* C7: create_project for a name stored as Destroyed returns a Creating state
\* and stores it when the caller is the owner or an admin, and returns
\* ProjectAlreadyExists, storing nothing, when the caller is another account
\* that is no admin.
C7_DestroyedNameRecreated ==
    [][\A n \in AllNames :
        (Called(n) /\ Stored(n) /\ Project_is_destroyed(StateOf(n))) =>
            IF ret'.by_owner_or_admin
            THEN /\ ret'.res.ok
                 /\ ret'.res.v.tag = "creating"
                 /\ ret'.res.v.project_name = n
                 /\ StateOf_next(n) = ret'.res.v
            ELSE /\ ret'.res = Err("ProjectAlreadyExists")
                 /\ projects' = projects]_vars

\* a destroyed project was created again
C7_Witness ==
    /\ ret.op = "create_project"
    /\ ret.by_owner_or_admin
    /\ ret.res.ok
    /\ StateOf(ret.project_name) = ret.res.v

\* C8: create_project for a name stored as Destroyed returns a Creating state
\* with the project_id of the Creating state the name was created with before,
\* and the row keeps its project_id.
C8_ProjectIdKept ==
    [][\A n \in AllNames :
        (Called(n) /\ Stored(n) /\ Project_is_destroyed(StateOf(n)) /\ ret'.res.ok) =>
            /\ ret'.res.v.project_id = Get(created[n]).project_id
            /\ Get(projects'[n]).project_id = Get(projects[n]).project_id]_vars

\* the custom domains recorded for the row of n
RecordedFor(n) ==
    {f \in Fqdns : /\ IsSome(custom_domains[f])
                   /\ Get(custom_domains[f]).project_id = Get(projects[n]).project_id}

\* C9: create_project for a name stored as Destroyed returns Creating with
\* fqdn = Some(f) for a custom domain f recorded for the project, and with
\* fqdn = None when none is recorded.
C9_CustomDomainRestored ==
    [][\A n \in AllNames :
        (Called(n) /\ Stored(n) /\ Project_is_destroyed(StateOf(n)) /\ ret'.res.ok) =>
            IF RecordedFor(n) = {}
            THEN ret'.res.v.fqdn = None
            ELSE \E f \in RecordedFor(n) : ret'.res.v.fqdn = Some(f)]_vars

\* a destroyed project with a custom domain was created again
C9_Witness ==
    /\ ret.op = "create_project"
    /\ ret.by_owner_or_admin
    /\ ret.res.ok
    /\ IsSome(ret.res.v.fqdn)
    /\ IsSome(custom_domains[Get(ret.res.v.fqdn)])
    /\ Get(custom_domains[Get(ret.res.v.fqdn)]).project_id =
            Get(projects[ret.project_name]).project_id

\* C10: a Started project created with idle_minutes = 0 never steps to
\* Stopping, and when its probe succeeds it steps to Ready with the stats
\* window it had.
C10_NoIdleStop ==
    [][\A n \in ValidNames :
        (Stepped(n) /\ StateOf(n).tag = "started"
            /\ Get(created[n]).idle_minutes = 0) =>
        /\ StateOf_next(n).tag # "stopping"
        /\ StateOf_next(n).tag = "ready" => StateOf_next(n).stats = StateOf(n).stats]_vars

\* C11: a step of a healthy Started project with idle_minutes = n >= 1 appends
\* the container's CPU counter to the window and evicts the oldest samples
\* while the window holds more than n.  It yields Stopping exactly when a
\* sample was evicted and (new - evicted) / n, computed on u64 with integer
\* division, is below 100_000_000; otherwise it yields Ready with the last n
\* samples at most.  On a host whose calls succeed and whose deployer answers,
\* every such step is healthy, and the Stopping state it yields steps to
\* Stopped with the container exited.
C11_IdleWindowRule ==
    [][\A n \in ValidNames :
        (Stepped(n) /\ IsSome(docker[n])) =>
            LET self == StateOf(n)
                new == StateOf_next(n)
                idle == Get(docker[n]).cfg.idle_label
                cpu == Get(docker[n]).cpu
                pushed == Append(self.stats, cpu)
                evicts == Len(pushed) > idle
                evicted == pushed[Len(pushed) - idle]
                below == cpu >= evicted /\ (cpu - evicted) \div idle < 100000000
            IN  /\ (self.tag = "started" /\ idle >= 1 /\ new.tag \in {"ready", "stopping"}) =>
                    /\ new.tag = "stopping" <=> (evicts /\ below)
                    /\ new.tag = "ready" =>
                        /\ Len(new.stats) <= idle
                        /\ new.stats = SubSeq(pushed, Len(pushed) - Len(new.stats) + 1,
                                              Len(pushed))
                        /\ Len(new.stats) = IF evicts THEN idle ELSE Len(pushed)
                /\ (host = "busy" /\ self.tag = "started") =>
                        new.tag \in {"ready", "stopping"}
                /\ (host = "busy" /\ self.tag = "stopping") =>
                        new.tag = "stopped" /\ Get(docker'[n]).status = "exited"
    ]_vars

\* a project with a window of 2 has stopped on its third sample, 100_000_000
\* above the first, and has run on to Stopped
C11_Witness ==
    /\ host = "busy" /\ ret.op = "next"
    /\ Stored("matrix") /\ StateOf("matrix").tag = "stopped"
    /\ IsSome(docker["matrix"])
    /\ Get(docker["matrix"]).cfg.idle_label = 2
    /\ Get(docker["matrix"]).cpu = 100000000

\* C12: on a host whose calls all succeed and whose deployer answers its probe,
\* every step moves a project along Creating -> Attaching -> Starting ->
\* Started -> Ready (idle_minutes 0) with both counters 0 and the container id
\* unchanged; stop() on the Ready project yields Stopping, whose step yields
\* Stopped with the container exited; destroy() on the Stopped project yields
\* Destroying, whose step yields Destroyed with the container removed.
C12_CooperativePath ==
    [][\A n \in ValidNames :
        (host = "cooperative" /\ Stored(n)) =>
            LET self == StateOf(n)
                new == StateOf_next(n)
            IN  /\ Stepped(n) =>
                    /\ self.tag = "creating" =>
                        /\ self.recreate_count = 0
                        /\ IsSome(docker'[n])
                        /\ new = Attaching(Get(docker'[n]), 0)
                    /\ self.tag = "attaching" =>
                        /\ new.tag = "starting" /\ new.restart_count = 0
                        /\ new.container.id = self.container.id
                    /\ self.tag = "starting" =>
                        /\ new.tag = "started"
                        /\ new.container.id = self.container.id
                        /\ new.container.status = "running"
                    /\ (self.tag = "started" /\ self.container.cfg.idle_label = 0) =>
                        /\ new.tag = "ready"
                        /\ new.container.id = self.container.id
                    /\ (self.tag = "stopping" /\ self.container.status = "running") =>
                        /\ new.tag = "stopped"
                        /\ new.container.id = self.container.id
                        /\ new.container.status = "exited"
                        /\ Get(docker'[n]).status = "exited"
                    /\ self.tag = "destroying" =>
                        /\ new.tag = "destroyed"
                        /\ ~IsSome(docker'[n])
                /\ (ret'.op = "stop" /\ self.tag = "ready") =>
                        new = Stopping(self.container) /\ self.container.status = "running"
                /\ (ret'.op = "destroy" /\ self.tag = "stopped") =>
                        new = Destroying(self.container)
    ]_vars

\* the project created with idle_minutes 0 has been stopped from Ready and
\* destroyed from Stopped: its only container is gone
C12_Witness ==
    /\ host = "cooperative" /\ ret.op = "next"
    /\ Stored("matrix") /\ StateOf("matrix").tag = "destroyed"
    /\ IsSome(StateOf("matrix").destroyed)
    /\ Get(StateOf("matrix").destroyed).status = "exited"
    /\ Get(StateOf("matrix").destroyed).cfg.idle_label = 0
    /\ ~IsSome(docker["matrix"])

\* C13: when the container of a Ready project has exited, a successful health
\* check stores Restarting with restart_count 0 and the refreshed container.
\* On a host that only kills the containers of Ready projects, the steps that
\* follow lead Restarting -> Starting -> Started -> Ready on the same
\* container, and the project is eventually Ready again with its container
\* running.
C13_KilledRestarts ==
    /\ [][\A n \in ValidNames :
            Stored(n) =>
                LET self == StateOf(n)
                    new == StateOf_next(n)
                IN  /\ (/\ ret'.op = "refresh" /\ ret'.ok /\ self.tag = "ready"
                        /\ Live(docker, n, self.container.id)
                        /\ Get(docker[n]).status = "exited") =>
                            new = Restarting(Get(docker[n]), 0)
                    /\ (host = "killed" /\ Stepped(n)) =>
                        /\ self.tag = "restarting" =>
                                new = Starting(self.container, self.restart_count + 1)
                        /\ self.tag = "starting" =>
                            /\ new.tag = "started"
                            /\ new.container.id = self.container.id
                            /\ Get(docker'[n]).status = "running"
                        /\ (self.tag = "started" /\ self.container.cfg.idle_label = 0) =>
                            /\ new.tag = "ready"
                            /\ new.container.id = self.container.id
       ]_vars
    /\ \A n \in ValidNames :
        (/\ host = "killed" /\ At(n, "ready")
         /\ StateOf(n).container.cfg.idle_label = 0
         /\ Get(docker[n]).status = "exited")
            ~> (At(n, "ready") /\ Running(n))

\* the container of a Ready project was killed, the health check has stored
\* Restarting, and the step after it has stored Starting with restart_count 1
C13_Witness ==
    /\ host = "killed" /\ ret.op = "next"
    /\ Stored("matrix") /\ StateOf("matrix") \in
            {Starting(c, 1) : c \in {Get(docker["matrix"])}}
    /\ StateOf("matrix").container.cfg.idle_label = 0
    /\ Get(docker["matrix"]).status = "exited"

SentTo(p) ==
    router.finished[p] \cup router.executing[p]
        \cup {router.table[p][i] : i \in 1 .. Len(router.table[p])}

\* C14: the tasks of one project execute one at a time and in the order they
\* were sent: no two tasks of a project execute at once, a task starts only
\* when every task sent earlier for its project has finished, and a project
\* with a waiting task and no executing one can start it whatever the other
\* projects do.
C14_OneAtATimeInOrder ==
    /\ [](\A p \in RouterNames :
            /\ Cardinality(router.executing[p]) <= 1
            /\ (router.table[p] # <<>> /\ router.executing[p] = {}) => ENABLED WorkerStart(p))
    /\ [][\A p \in RouterNames :
            \A t \in router'.executing[p] \ router.executing[p] :
                \A u \in SentTo(p) : u < t => u \in router.finished[p]]_vars

\* tasks of both projects execute at once while a later task of one waits
C14_Witness ==
    /\ router.executing["matrix"] # {}
    /\ router.executing["zion"] # {}
    /\ router.table["matrix"] # <<>>

\* C15: within one project a result of next is written to the Repository
\* before next is called again: the written results never lag the produced
\* ones by more than one, and next begins only when they are level.
C15_PersistBeforeNext ==
    /\ [](\A p \in RouterNames :
            router.produced[p] - router.committed[p] \in {0, 1})
    /\ [][\A p \in RouterNames :
            router'.produced[p] > router.produced[p] =>
                router.committed[p] = router.produced[p]]_vars

\* the second result of a project is in flight and the first is written
C15_Witness ==
    \E p \in RouterNames : router.produced[p] = 2 /\ router.committed[p] = 1

RECURSIVE NoContainer(_)
NoContainer(state) ==
    \/ state.tag \in {"creating", "destroyed"}
    \/ state.tag = "errored" /\ (state.ctx = None \/ NoContainer(Get(state.ctx)))

\* the container of a state that holds one
RECURSIVE ContainerOf(_)
ContainerOf(state) ==
    IF state.tag = "errored" THEN ContainerOf(Get(state.ctx)) ELSE state.container

\* C17: in every state a project is stored in, stop, start and reboot return
\* InvalidOperation exactly when the state holds no container, and otherwise
\* Stopping, Starting with restart_count 0 and Rebooting with that container;
\* destroy never fails and returns Destroying with the container, or Destroyed
\* with none.  A task that calls stop or start stores the new state exactly
\* when the call succeeds.
C17_InvalidOperation ==
    /\ [](\A n \in ValidNames :
            Stored(n) =>
                LET state == StateOf(n)
                IN  IF NoContainer(state)
                    THEN /\ Project_stop(state) = Err("InvalidOperation")
                         /\ Project_start(state) = Err("InvalidOperation")
                         /\ Project_reboot(state) = Err("InvalidOperation")
                         /\ Project_destroy(state) = Ok(Destroyed(None))
                    ELSE /\ Project_stop(state) = Ok(Stopping(ContainerOf(state)))
                         /\ Project_start(state) = Ok(Starting(ContainerOf(state), 0))
                         /\ Project_reboot(state) = Ok(Rebooting(ContainerOf(state)))
                         /\ Project_destroy(state) = Ok(Destroying(ContainerOf(state))))
    /\ [][\A n \in ValidNames :
            (Stored(n) /\ ret'.op \in {"stop", "start"}) =>
                /\ ret'.ok = ~NoContainer(StateOf(n))
                /\ ~ret'.ok => StateOf_next(n) = StateOf(n)
                /\ (ret'.ok /\ ret'.op = "stop") =>
                        StateOf_next(n) = Stopping(ContainerOf(StateOf(n)))
                /\ (ret'.ok /\ ret'.op = "start") =>
                        StateOf_next(n) = Starting(ContainerOf(StateOf(n)), 0)]_vars

\* stop has been refused for a project whose state holds no container
C17_Witness ==
    /\ ret.op = "stop" /\ ~ret.ok
    /\ Stored("matrix") /\ NoContainer(StateOf("matrix"))

\* C18: however create_project calls interleave, at most one row is inserted
\* for a name; and when two calls that ran their SELECT while the name did not
\* exist have both returned, exactly one has returned Creating and the other
\* ProjectAlreadyExists.
C18_OneRowPerName ==
    /\ \A n \in AllNames : calls.inserted[n] <= 1
    /\ \A n \in AllNames : calls.inserted[n] = 1 <=> IsSome(projects[n])
    /\ \A a, b \in Accounts :
        (/\ a # b
         /\ IsSome(calls.returned[a]) /\ IsSome(calls.returned[b])
         /\ Get(calls.returned[a]).project_name = Get(calls.returned[b]).project_name
         /\ Get(calls.returned[a]).project_name \in ValidNames
         /\ ~Get(calls.returned[a]).existed /\ ~Get(calls.returned[b]).existed) =>
            \/ /\ Get(calls.returned[a]).res.ok
               /\ Get(calls.returned[a]).res.v.tag = "creating"
               /\ Get(calls.returned[b]).res = Err("ProjectAlreadyExists")
            \/ /\ Get(calls.returned[b]).res.ok
               /\ Get(calls.returned[b]).res.v.tag = "creating"
               /\ Get(calls.returned[a]).res = Err("ProjectAlreadyExists")

\* two calls for a new name have run at once; the second to write was refused
C18_Witness ==
    /\ IsSome(calls.returned["neo"]) /\ IsSome(calls.returned["trinity"])
    /\ ~Get(calls.returned["neo"]).existed /\ ~Get(calls.returned["trinity"]).existed
    /\ Get(calls.returned["neo"]).project_name = "matrix"
    /\ Get(calls.returned["trinity"]).project_name = "matrix"
    /\ Get(calls.returned["trinity"]).res.ok
    /\ Get(calls.returned["neo"]).res = Err("ProjectAlreadyExists")

\* what project_details_for_custom_domain answers for f now, and after the step
Details(f) == project_details_for_custom_domain(projects, custom_domains, f)
Details_next(f) == project_details_for_custom_domain(projects', custom_domains', f)

\* C19: a successful create_custom_domain makes project_details_for_custom_domain
\* answer, for its fqdn, with the project, the certificate and the private key
\* it was called with, and nothing else changes the answer for any fqdn: the
\* answer is that of the most recent create_custom_domain for the fqdn, and
\* CustomDomainNotFound for an fqdn that was never created.  The lookup itself
\* returns that answer.
C19_LatestCustomDomain ==
    /\ \A f \in Fqdns : Details(f) = Err("CustomDomainNotFound")
    /\ [][\A f \in Fqdns :
            /\ (ret'.op = "create_custom_domain" /\ ret'.ok /\ ret'.fqdn = f) =>
                    Details_next(f) = Ok([fqdn |-> f, project_name |-> ret'.project_name,
                                          certificate |-> ret'.certificate,
                                          private_key |-> ret'.private_key])
            /\ ~(ret'.op = "create_custom_domain" /\ ret'.ok /\ ret'.fqdn = f) =>
                    Details_next(f) = Details(f)
            /\ (ret'.op = "project_details_for_custom_domain" /\ ret'.fqdn = f) =>
                    ret'.res = Details(f)
            /\ (ret'.op = "create_custom_domain" /\ ~ret'.ok) =>
                    ~IsSome(projects[ret'.project_name])]_vars

\* custom domains of two projects are recorded, and the lookup of one returns
\* the project, certificate and key it was created with
C19_Witness ==
    /\ ret.op = "project_details_for_custom_domain"
    /\ ret.fqdn = "zion.org"
    /\ ret.res = Ok([fqdn |-> "zion.org", project_name |-> "matrix",
                     certificate |-> "dummy certificate update",
                     private_key |-> "dummy private key update"])
    /\ custom_domains["neo.the.matrix"] =
            Some([project_id |-> 0, certificate |-> "dummy certificate",
                  private_key |-> "dummy private key"])

\* the edges of the claim: the variant of a state, and the variants next may
\* yield from it
Edges(tag) ==
    CASE tag = "creating" -> {"attaching", "errored"}
      [] tag = "attaching" -> {"starting", "recreating", "errored"}
      [] tag = "recreating" -> {"creating", "errored"}
      [] tag = "starting" -> {"started", "restarting"}
      [] tag = "restarting" -> {"starting", "errored"}
      [] tag = "started" -> {"started", "ready", "stopping", "errored"}
      [] tag = "stopping" -> {"stopped", "errored"}
      [] tag = "rebooting" -> {"starting", "errored"}
      [] tag = "destroying" -> {"destroyed", "errored"}
      [] tag = "ready" -> {"ready"}
      [] tag = "stopped" -> {"stopped"}
      [] tag = "destroyed" -> {"destroyed"}
      [] tag = "errored" -> {"errored"}

\* C20: every step of Project::next takes a state of one variant to a state of
\* a variant the table of edges allows for it: Creating to Attaching or
\* Errored, Attaching to Starting, Recreating or Errored, Recreating to Creating
\* or Errored, Starting to Started or Restarting, Restarting to Starting or
\* Errored, Started to Started, Ready, Stopping or Errored, Stopping to Stopped
\* or Errored, Rebooting to Starting or Errored, Destroying to Destroyed or
\* Errored, and Ready, Stopped, Destroyed and Errored each to itself.
C20_EdgesOnly ==
    [][\A n \in ValidNames :
        Stepped(n) => StateOf_next(n).tag \in Edges(StateOf(n).tag)]_vars

\* next has run on an Errored project
C20_Witness ==
    /\ ret.op = "next"
    /\ Stored("matrix") /\ StateOf("matrix").tag = "errored"
    /\ IsSome(StateOf("matrix").ctx)
    /\ Get(StateOf("matrix").ctx).tag = "errored"

\* C21: next applied to an Errored state returns a state equal to its input,
\* with the same kind, message and previous state.
C21_ErroredFixedPoint ==
    [][\A n \in ValidNames :
        (Stepped(n) /\ StateOf(n).tag = "errored") => StateOf_next(n) = StateOf(n)]_vars

\* C22: the previous state of a stored Errored state is never an Errored state.
C22_PreviousNotErrored ==
    \A n \in ValidNames :
        (Stored(n) /\ StateOf(n).tag = "errored" /\ IsSome(StateOf(n).ctx)) =>
            Get(StateOf(n).ctx).tag # "errored"

\* C23: next applied to Ready, Stopped or Destroyed returns a state equal to
\* its input and leaves the container host as it was, with no container
\* created; is_done holds for exactly the variants Ready, Stopped, Destroyed and
\* Errored.
C23_DoneStatesStay ==
    /\ [](\A tag \in ProjectTags :
            Project_is_done([tag |-> tag]) <=>
                tag \in {"ready", "stopped", "destroyed", "errored"})
    /\ [][\A n \in ValidNames :
            (Stepped(n) /\ StateOf(n).tag \in {"ready", "stopped", "destroyed"}) =>
                /\ StateOf_next(n) = StateOf(n)
                /\ projects' = projects
                /\ docker' = docker
                /\ next_cid' = next_cid
                /\ events' = events
                /\ ret'.err = "none"]_vars

\* next has run on a Stopped project whose container still exists
C23_Witness ==
    /\ ret.op = "next" /\ ret.from = "stopped"
    /\ Stored("matrix") /\ StateOf("matrix").tag = "stopped"
    /\ IsSome(docker["matrix"])

\* C24: whenever a project is Ready, the initial_key of its row equals the
\* --admin-secret argument of its container.
C24_KeyMatchesContainer ==
    \A n \in ValidNames :
        (Stored(n) /\ StateOf(n).tag = "ready") =>
            Get(projects[n]).initial_key = StateOf(n).container.cfg.admin_secret

\* C25: when the gateway restarts with a project stored in a state that is not
\* done, the state is the one the last step stored and the revival sweep
\* enqueues a task for the project.
C25_ReviveResumes ==
    [][\A n \in ValidNames :
        (Stored(n) /\ ret'.op = "revive" /\ ret'.project_name = n
            /\ ~Project_is_done(StateOf(n))) =>
                ret'.task # "none"]_vars

\* what refresh makes of a state whose container the inspect call found, by
\* the container's status; None where it fails
Refreshed(self, container) ==
    LET status == container.status
    IN  IF self.tag = "starting"
        THEN IF status = "running" THEN Some(Started(container, None, <<>>))
             ELSE IF status = "created" THEN Some(Starting(container, self.restart_count))
             ELSE IF status = "exited" THEN Some(Restarting(container, 0))
             ELSE None
        ELSE IF self.tag \in {"started", "ready"}
        THEN IF status = "running" THEN Some(Started(container, None, self.stats))
             ELSE IF status = "exited" THEN Some(Restarting(container, 0))
             ELSE None
        ELSE IF status = "running" THEN Some(Stopping(container))
             ELSE IF status = "exited" THEN Some(Stopped(container))
             ELSE None

\* C26: when the inspect call finds the container, refresh of Starting yields
\* Started with an empty stats window on running, Starting with its
\* restart_count on created and Restarting with restart_count 0 on exited;
\* refresh of Started or Ready yields Started with the stats window kept and no
\* service on running and Restarting with restart_count 0 on exited; refresh of
\* Stopping yields Stopping on running and Stopped on exited; for any other
\* status refresh fails and stores nothing, and a Ready project never comes back
\* as Ready.
C26_RefreshByStatus ==
    [][\A n \in ValidNames :
        (Stored(n) /\ ret'.op = "refresh" /\ ret'.project_name = n) =>
            LET self == StateOf(n)
                found == ret'.flag = "ok" /\ Live(docker, n, self.container.id)
                want == Refreshed(self, Get(docker[n]))
            IN  /\ self.tag \in {"starting", "started", "ready", "stopping"}
                /\ found =>
                    /\ ret'.ok <=> IsSome(want)
                    /\ ret'.ok => StateOf_next(n) = Get(want)
                /\ ~ret'.ok => projects' = projects
                /\ (ret'.ok /\ self.tag = "ready") => StateOf_next(n).tag # "ready"
                /\ docker' = docker]_vars

\* refresh has failed for a Stopping project whose container was never started
C26_Witness ==
    /\ ret.op = "refresh" /\ ret.flag = "ok" /\ ~ret.ok
    /\ Stored("matrix") /\ StateOf("matrix").tag = "stopping"
    /\ IsSome(docker["matrix"])
    /\ Get(docker["matrix"]).id = StateOf("matrix").container.id
    /\ Get(docker["matrix"]).status = "created"

\* C27: when the inspect call answers 404, refresh of a Starting, Started or
\* Ready project whose container the Creating step made succeeds and yields
\* Creating with recreate_count 0, from = the container the state held, and the
\* project_name, project_id, initial_key and idle_minutes the project was
\* created with.
C27_RefreshRecreatesOn404 ==
    [][\A n \in ValidNames :
        (Stored(n) /\ ret'.op = "refresh" /\ ret'.project_name = n
            /\ StateOf(n).tag \in {"starting", "started", "ready"}
            /\ ret'.flag = "ok" /\ ~Live(docker, n, StateOf(n).container.id)
            /\ MadeByCreating(n, StateOf(n).container)) =>
        /\ ret'.ok
        /\ StateOf_next(n).tag = "creating"
        /\ StateOf_next(n).recreate_count = 0
        /\ StateOf_next(n).from = Some(StateOf(n).container)
        /\ StateOf_next(n).project_name = Get(created[n]).project_name
        /\ StateOf_next(n).project_id = Get(created[n]).project_id
        /\ StateOf_next(n).initial_key = Get(created[n]).initial_key
        /\ StateOf_next(n).idle_minutes = Get(created[n]).idle_minutes]_vars

\* C28: refresh of a Creating, Attaching, Restarting, Recreating, Stopped,
\* Rebooting, Destroying, Destroyed or Errored state succeeds with the state it
\* was given, whatever the container host would answer, and leaves the table
\* and the host as they were.
C28_RefreshLeavesOthers ==
    [][\A n \in ValidNames :
        (Stored(n) /\ ret'.op = "refresh" /\ ret'.project_name = n
            /\ StateOf(n).tag \in {"creating", "attaching", "restarting", "recreating",
                                   "stopped", "rebooting", "destroying", "destroyed",
                                   "errored"}) =>
        /\ ret'.ok
        /\ StateOf_next(n) = StateOf(n)
        /\ projects' = projects
        /\ docker' = docker]_vars

\* a health check has run on a Rebooting project while the host's inspect
\* call would have failed
C28_Witness ==
    /\ ret.op = "refresh" /\ ret.flag = "err" /\ ret.ok
    /\ Stored("matrix") /\ StateOf("matrix").tag = "rebooting"

\* C29: a step of Attaching whose disconnect calls answer 500 and whose connect
\* call answers 409 goes on as if they had succeeded; a connect call that fails
\* otherwise yields Recreating with the container and the recreate_count of
\* the state; when no call fails the step yields Starting with restart_count 0
\* and the refreshed container, attached to the user network; a disconnect
\* call that fails otherwise, or a refresh that fails, yields Errored(Internal)
\* whose previous state is the Attaching state.
C29_AttachingAnswers ==
    [][\A n \in ValidNames :
        (Stepped(n) /\ StateOf(n).tag = "attaching") =>
            LET self == StateOf(n)
                new == StateOf_next(n)
                codes == ret'.codes
            IN  IF codes.disconnect \notin {0, 200, 500}
                THEN /\ new.tag = "errored" /\ new.kind = "Internal"
                     /\ new.ctx = Some(self)
                ELSE IF codes.connect \notin {200, 409}
                THEN new = Recreating(self.container, self.recreate_count)
                ELSE IF codes.inspect # 200
                THEN /\ new.tag = "errored" /\ new.kind = "Internal"
                     /\ new.ctx = Some(self)
                ELSE /\ new = Starting(Get(docker'[n]), 0)
                     /\ new.container.id = self.container.id
                     /\ UserNet \in new.container.nets]_vars

\* a step of Attaching has yielded Starting although a disconnect call
\* answered 500 and the connect call answered 409
C29_Witness ==
    /\ ret.op = "next" /\ ret.from = "attaching"
    /\ ret.codes.disconnect = 500 /\ ret.codes.connect = 409
    /\ Stored("matrix") /\ StateOf("matrix").tag = "starting"

\* C30: a step of Starting whose start call succeeds or answers 304 and whose
\* refresh succeeds yields Started with the refreshed container, no service and
\* an empty stats window; when the start call fails otherwise or the refresh
\* fails, the step yields Restarting with the container and the restart_count
\* of the state; it never yields Errored.
C30_StartingAnswers ==
    [][\A n \in ValidNames :
        (Stepped(n) /\ StateOf(n).tag = "starting") =>
            LET self == StateOf(n)
                new == StateOf_next(n)
                codes == ret'.codes
            IN  /\ new.tag # "errored"
                /\ IF codes.start \notin {204, 304}
                   THEN new = Restarting(self.container, self.restart_count)
                   ELSE IF codes.inspect = 200
                   THEN /\ new = Started(Get(docker'[n]), None, <<>>)
                        /\ new.container.id = self.container.id
                        /\ new.container.status = "running"
                   ELSE /\ codes.inspect \in {404, 500}
                        /\ new = Restarting(self.container, self.restart_count)]_vars

\* a step of Starting has yielded Started after the start call answered 304
C30_Witness ==
    /\ ret.op = "next" /\ ret.from = "starting" /\ ret.codes.start = 304
    /\ Stored("matrix") /\ StateOf("matrix").tag = "started"

\* C31: a step of Started whose status probe fails yields Started again with
\* the refreshed container, the service kept and the stats window unchanged
\* while the container started no more than 120 s ago, and Errored(Internal,
\* "project did not become healthy in time") afterwards; polled on, a Started
\* project whose container has exited becomes Errored, and no project stays
\* Started forever.
C31_ProbeFailureGrace ==
    /\ [][\A n \in ValidNames :
            (Stepped(n) /\ StateOf(n).tag = "started" /\ ret'.codes.probe = "unhealthy") =>
                LET self == StateOf(n)
                    new == StateOf_next(n)
                    container == Get(docker[n])
                IN  IF container.fresh
                    THEN /\ new.tag = "started"
                         /\ new.container = container
                         /\ new.stats = self.stats
                         /\ IsSome(new.service)
                         /\ IsSome(self.service) =>
                                /\ Get(new.service).name = Get(self.service).name
                                /\ Get(new.service).target = Get(self.service).target
                    ELSE /\ new.tag = "errored"
                         /\ new.kind = "Internal"
                         /\ new.message = MsgUnhealthy
                         /\ new.ctx = Some(self)]_vars
    /\ \A n \in ValidNames :
            /\ (At(n, "started") /\ IsSome(docker[n]) /\ Get(docker[n]).status = "exited")
                    ~> At(n, "errored")
            /\ At(n, "started") ~> ~At(n, "started")

\* a Started project whose probe had failed within the 120 s has become Errored
\* for not becoming healthy in time
C31_Witness ==
    /\ ret.op = "next" /\ ret.from = "started" /\ ret.codes.probe = "unhealthy"
    /\ At("matrix", "errored")
    /\ StateOf("matrix").message = MsgUnhealthy
    /\ IsSome(Get(StateOf("matrix").ctx).service)

\* C32: in every state a project is stored in, Project::container() is the
\* handle of the state in Attaching, Recreating, Starting, Restarting, Started,
\* Ready, Stopping, Stopped, Rebooting and Destroying; in Errored it is the
\* handle of the state found by following the previous states, when that state
\* holds one; it is absent in Creating, in Destroyed, in Errored with no
\* previous state and in Errored whose previous states end in Creating.
C32_ContainerPresence ==
    \A n \in ValidNames :
        Stored(n) =>
            LET state == StateOf(n)
            IN  /\ state.tag \in HandleTags => Project_container(state) = Some(state.container)
                /\ state.tag \in {"creating", "destroyed"} => Project_container(state) = None
                /\ state.tag = "errored" =>
                        Project_container(state) =
                            IF NoContainer(state) THEN None ELSE Some(ContainerOf(state))

\* an Errored state whose previous state is itself Errored and came from a
\* state that holds a container
C32_Witness ==
    /\ At("matrix", "errored")
    /\ Nesting(StateOf("matrix")) = 2
    /\ ~NoContainer(StateOf("matrix"))
    /\ IsSome(Project_container(StateOf("matrix")))

\* C32 (as stated): every Errored state that has a previous state has a
\* container.
C32_ErroredWithPreviousHasContainer ==
    \A n \in ValidNames :
        (At(n, "errored") /\ IsSome(StateOf(n).ctx)) => IsSome(Project_container(StateOf(n)))

\* C33: for a stored project the revive sweep enqueues a Rebooting task when
\* the state is Errored with a previous container that the host still knows and
\* reports as exited, a Starting task with restart_count 0 when the host
\* reports that container as running or created, a Rebooting task when the
\* state is Stopped and the host still knows its container, and no task in
\* every other case: another state, or an inspect call that fails.  The task
\* carries the container of the stored state.
C33_ReviveTasks ==
    [][\A n \in ValidNames :
        (Stored(n) /\ ret'.op = "revive" /\ ret'.project_name = n) =>
            LET self == StateOf(n)
                inspected(handle) == ret'.flag = "ok" /\ Live(docker, n, handle.id)
                status == Get(docker[n]).status
                task == IF self.tag = "errored" /\ IsSome(self.ctx) /\ ~NoContainer(self)
                        THEN IF ~inspected(ContainerOf(self)) THEN "none"
                             ELSE IF status = "exited" THEN "rebooting"
                             ELSE IF status \in {"running", "created"} THEN "starting"
                             ELSE "none"
                        ELSE IF self.tag = "stopped" /\ inspected(self.container)
                        THEN "rebooting"
                        ELSE "none"
            IN  /\ ret'.task = task
                /\ task = "none" => projects' = projects
                /\ task = "rebooting" => StateOf_next(n) = Rebooting(ContainerOf(self))
                /\ task = "starting" => StateOf_next(n) = Starting(ContainerOf(self), 0)]_vars

\* the sweep has enqueued Starting for an Errored project whose container was
\* created and never started
C33_Witness ==
    /\ ret.op = "revive" /\ ret.from = "errored" /\ ret.task = "starting"
    /\ At("matrix", "starting")
    /\ IsSome(docker["matrix"]) /\ Get(docker["matrix"]).status = "created"

\* C34: a step of Destroying yields Destroyed carrying the container of the
\* state, whatever the stop call and the force-remove call answer, also when
\* both fail and the container stays on the host; it does not yield Errored
\* for a handle that has an id.
C34_DestroyingBestEffort ==
    [][\A n \in ValidNames :
        (Stepped(n) /\ StateOf(n).tag = "destroying") =>
            LET self == StateOf(n)
                new == StateOf_next(n)
            IN  /\ new = Destroyed(Some(self.container))
                /\ ret'.err = "none"
                /\ (ret'.codes.remove = "err" /\ IsSome(docker[n])) => docker'[n] # None
                /\ (ret'.codes.remove = "ok" /\ Live(docker, n, self.container.id))
                        => docker'[n] = None]_vars

\* a project has become Destroyed although the stop call and the remove call
\* both failed; its container is still on the host
C34_Witness ==
    /\ ret.op = "next" /\ ret.from = "destroying"
    /\ ret.codes.stop = "err" /\ ret.codes.remove = "err"
    /\ At("matrix", "destroyed")
    /\ IsSome(docker["matrix"])
    /\ Get(docker["matrix"]).id = Get(StateOf("matrix").destroyed).id

\* C35: find_or_start_project sends the task start, run_until_done,
\* start_idle_deploys, check_health exactly when the stored state of the
\* project is Stopped, and returns only after that task has finished, with the
\* state it then reads from the table; for every other stored state it
\* returns that state, sends no task and changes nothing; for an unknown name
\* it returns ProjectNotFound.
C35_FindOrStart ==
    [][\A a \in Accounts :
        /\ (ret'.op = "find_or_start_project" /\ ret'.account = a) =>
                LET n == ret'.project_name
                IN  /\ ret'.sent <=> (Stored(n) /\ StateOf(n).tag = "stopped")
                    /\ projects' = projects
                    /\ ret'.sent =>
                            /\ calls'.pending[a] =
                                    Some([project_name |-> n,
                                          task |-> <<"start", "run_until_done",
                                                     "start_idle_deploys", "check_health">>])
                            /\ calls'.returned[a] = None
                    /\ ~ret'.sent =>
                            /\ calls'.pending[a] = None
                            /\ calls'.returned[a] =
                                    Some(IF Stored(n) THEN Ok(StateOf(n))
                                         ELSE Err("ProjectNotFound"))
        /\ (IsSome(calls.pending[a]) /\ calls'.returned[a] # calls.returned[a]) =>
                /\ Get(calls.pending[a]).task = <<>>
                /\ calls'.returned[a] =
                        Some(Ok(StateOf(Get(calls.pending[a]).project_name)))
                /\ projects' = projects]_vars

\* a call for a Stopped project has returned the Ready state its task reached
C35_Witness ==
    /\ ret.op = "find_or_start_project_returns" /\ ret.account = "neo"
    /\ calls.returned["neo"] = Some(Ok(StateOf("matrix")))
    /\ At("matrix", "ready")

\* C36: when create_project inserts a new project, the project_id of the
\* Creating state it returns, which the container is given as --project-id, is
\* the project_id of the row it stored for the name.
C36_StateIdIsRowId ==
    [][\A n \in AllNames :
        (Called(n) /\ ~Stored(n) /\ ret'.res.ok) =>
            /\ ret'.res.v.project_id = Get(projects'[n]).project_id
            /\ generate_container_config(ret'.res.v).project_id_arg
                    = Get(projects'[n]).project_id]_vars

\* C37: a project that is polled with Project::next, on a host whose calls
\* return and with time passing, is eventually in a done state (Ready,
\* Stopped, Destroyed or Errored), whatever state it is stored in.
C37_ReachesDone ==
    \A n \in ValidNames :
        Stored(n) ~> (Stored(n) /\ Project_is_done(StateOf(n)))

\* a project has become Errored after its container had been restarted
\* MAX_RESTARTS times
C37_Witness ==
    /\ ret.op = "next" /\ ret.from = "restarting"
    /\ At("matrix", "errored")
    /\ StateOf("matrix").message = MsgTooManyRestarts
    /\ Get(StateOf("matrix").ctx).restart_count = MAX_RESTARTS

\* C38: a health check that refreshes a project on its way to Ready does not
\* give back restarts already spent: when it turns a Starting state into
\* Restarting, the restart_count is not lower than the one the state held.
C38_BudgetNotReplenished ==
    [][\A n \in ValidNames :
        (/\ Stored(n) /\ ret'.op = "refresh" /\ ret'.project_name = n /\ ret'.ok
         /\ StateOf(n).tag = "starting"
         /\ StateOf_next(n).tag = "restarting") =>
            StateOf_next(n).restart_count >= StateOf(n).restart_count]_vars

\* C39: once the create_project calls for a destroyed project have all
\* returned, every caller that received Ok(Creating) holds the state, initial
\* key included, that the table holds for the name.
C39_CallersHoldStoredState ==
    (\A a \in Accounts : ~IsSome(calls.pending[a])) =>
        \A a \in Accounts :
            (IsSome(calls.returned[a]) /\ Get(calls.returned[a]).res.ok) =>
                LET n == Get(calls.returned[a]).project_name
                IN  /\ Get(calls.returned[a]).res.v = StateOf(n)
                    /\ Get(calls.returned[a]).res.v.initial_key = Get(projects[n]).initial_key

\* C40: whenever a step of a healthy Started project evicts a sample from its
\* stats window, the CPU counter it has just read is at least the evicted
\* sample, so that new - evicted does not underflow.
C40_NoUnderflow ==
    [][\A n \in ValidNames :
        (/\ Stored(n) /\ IsSome(docker[n])
         /\ ret'.op = "next" /\ ret'.project_name = n /\ ret'.from = "started"
         /\ ret'.codes.probe = "healthy" /\ ret'.err \in {"none", "panic"}) =>
            LET idle == Get(docker[n]).cfg.idle_label
                cpu == Get(docker[n]).cpu
                pushed == Append(StateOf(n).stats, cpu)
            IN  (idle >= 1 /\ Len(pushed) > idle) => cpu >= pushed[Len(pushed) - idle]]_vars

============================================================================
